---- MODULE Spec2Model ----
(***************************************************************************)
(* A model of the mini-os kernel (os/src): the FIFO scheduler, the         *)
(* blocking mutex, the timer heap, pipes, and the process life cycle       *)
(* (fork / exit / waitpid / signals raised by faults).                     *)
(*                                                                         *)
(* The kernel runs on one hart and traps from user mode run with           *)
(* interrupts masked, so every system call and every trap arm is one       *)
(* atomic action up to its first call of schedule(); the part after the    *)
(* switch back is folded into the dispatch of the thread (run_tasks).      *)
(***************************************************************************)
EXTENDS Integers, Sequences, FiniteSets, TLC

(***************************************************************************)
(* Bounds of the model                                                     *)
(***************************************************************************)
\* thread control blocks of the process of the mutex scenario (main + workers)
NThreads == 3
\* iterations of lock / increment / unlock per thread
Iters == 1
\* the clock of the sleep scenario runs from 0 to MaxTime ms
MaxTime == 2
\* sys_sleep calls per thread in the sleep scenario
MaxSleeps == 1
\* threads that use the pipe
NPipeThreads == 2
\* bytes written to the pipe in one run
MaxPipeBytes == 34
\* the length of a short read or write
SmallLen == 2
\* threads of the processes of the process scenario, besides initproc's
NProcThreads == 3
\* bytes written to the pipe in one run of the process scenario
MaxProcBytes == 4
\* the length of the message of the pipe scenario (spec.md E2: "ping")
PingLen == 4
\* frames the frame allocator has left when the model starts
NFrames == 18
\* pages the break of a process rises above the bottom of its heap
MaxHeapPages == 11
\* operations on the address spaces in one run
MaxMemOps == 5
\* slots of the fd table of a process
MaxFds == 4

\* fs/pipe.rs
RING_BUFFER_SIZE == 32

\* lengths passed to sys_read and sys_write: nothing, a few bytes, more than the
\* ring buffer holds
OpLens == {0, SmallLen, RING_BUFFER_SIZE + 1}

NoTask == -1

\* task/id.rs
IDLE_PID == 0
\* task/signal.rs : the bit positions of the signals of the model
SIGINT == 2
SIGILL == 4
SIGABRT == 6
SIGFPE == 8
SIGKILL == 9
SIGSEGV == 11
MAX_SIG == 31
SIGDEF == 0
SIGQUIT == 3
SIGTRAP == 5
SIGUSR1 == 10
SIGCONT == 18
SIGSTOP == 19

\* config.rs
PAGE_SIZE == 4096
USER_STACK_SIZE == 4096
\* config.rs : MEMORY_END = 0x88_000_000, as a physical page number
MEMORY_END_PPN == 557056
\* config.rs : TRAMPOLINE = usize::MAX - PAGE_SIZE + 1, as a virtual page number
\* of 27 bits
TRAMPOLINE_VPN == 134217727
\* mm/file_mapping.rs : MMAP_AREA_BASE = 0x0000_0001_0000_0000, as a page number
MMAP_AREA_BASE_VPN == 1048576

VARIABLES
  \* ---- scheduler (task/manager.rs, task/processor.rs) and threads of one process
  ready_queue,     \* TASK_MANAGER.ready_queue : sequence of TCBs
  current,         \* PROCESSOR.current : a TCB or NoTask
  task_status,     \* TCB.inner.task_status, "NoTcb" before the TCB is created
  task_exit_code,  \* TCB.inner.exit_code : << >> (None) or <<code>>
  task_res_tid,    \* TCB.inner.res : << >> (None) or <<tid>>
  tasks,           \* PCB.inner.tasks : sequence of TCB or NoTask (None)
  task_res_allocator, \* PCB.inner.task_res_allocator : [current, recycled]
  \* ---- blocking mutex (sync/mutex.rs)
  mutex,           \* MutexBlockingInner : [locked, wait_queue]
  \* ---- timer (timer.rs)
  timers,          \* TIMERS : set of [expire_ms, task]
  time_ms,         \* get_time_ms()
  \* ---- the user programs of the threads
  pc,              \* position of each thread in its user program
  iter,            \* iterations left
  reg,             \* the value a thread loaded from the shared counter
  counter,         \* the shared counter, in user memory
  waitlist,        \* the tids main got from thread_create and has not waited for
  sleeps,          \* sys_sleep calls left per thread
  kernel_panic,    \* a failed assert! / panic! has halted the kernel
  \* ---- one pipe (fs/pipe.rs) and the threads that use it
  ring,            \* PipeRingBuffer : [arr, head, tail, status]
  write_end_fd,    \* per process: its fd table holds the write end
  read_end_fd,     \* per process: its fd table holds the read end
  pipe_op,         \* per thread: the sys_read / sys_write in progress
  pipe_ret,        \* the last sys_read that returned: [want, ret], want = -1 before
  accepted,        \* the bytes write_byte has put into the buffer, in order
  delivered,       \* the bytes read_byte has handed to user buffers, in order
  \* ---- processes (task/process.rs) and their threads
  proc_current,    \* PROCESSOR.current in the process scenario
  proc_ready,      \* TASK_MANAGER.ready_queue in the process scenario
  thread_state,    \* per thread: "NoTcb", "Fresh" (ready, never dispatched),
                   \* "Ready", "Running", "Exited", "Destroyed"
  is_zombie,       \* PCB.inner.is_zombie
  pcb_alive,       \* the PCB has not been dropped
  exit_code,       \* PCB.inner.exit_code
  children,        \* PCB.inner.children : sequence of processes
  parent,          \* PCB.inner.parent
  pid2process,     \* PID2PCB : the PIDs in the table
  signals,         \* PCB.inner.signals : set of pending signals
  sigsegv_handler, \* PCB.inner.signal_actions.table[SIGSEGV].handler != 0
  handling_sig,    \* PCB.inner.handling_sig
  file_mapped,     \* PCB.inner.file_mappings holds a range
  last_trap,       \* the last trap handled: [cause, id, arg, ret, code]
  halted,          \* "no", or "panic" / "shutdown" once the kernel has stopped
  \* ---- address spaces (mm/)
  frame_allocator, \* FRAME_ALLOCATOR : [current, end, recycled]
  frame_data,      \* the contents of the physical frames, one value per frame
  memory_set,      \* per process: PCB.inner.memory_set, [alive, page_table, areas]
  heap,            \* per process: [heap_bottom, program_brk]
  file_mappings,   \* per process: PCB.inner.file_mappings, a sequence of FileMapping
  user_res,        \* per process: [tids, tasks_len], the tids whose TaskUserRes
                   \* holds a user stack and a trap context, and PCB.inner.tasks.len()
  mem_panic,       \* a failed assert! / unwrap() in mm/ has halted the kernel
  mem_last,        \* the last operation on an address space and its result
  \* ---- the signals of one process (task/signal.rs, task/action.rs)
  sigp,            \* the signal fields of its PCB, the trap context of its thread,
                   \* where the thread is, and the last trap: see InitSig
  \* ---- the descriptors of one process (task/process.rs, syscall/fs.rs)
  fdt,             \* [fd_table, last] : PCB.inner.fd_table as a sequence of kinds
                   \* of files ("none" for None), and the last system call
  \* ---- one bitmap of the file system (easy-fs/src/bitmap.rs)
  bitmap,          \* [blocks, saved, last, prev, panic, n] : the blocks of the
                   \* bitmap on the device, see InitBitmap
  \* ---- one file of the file system (easy-fs/src/layout.rs, block_cache.rs, efs.rs)
  efs,             \* the block device, the block cache, the data bitmap and the
                   \* DiskInode of the file, see InitEfs
  \* ---- a condition variable of the process of the mutex scenario, and the
  \* ---- block device driver (sync/condvar.rs, drivers/block.rs)
  condvar,         \* CondvarInner : [wait_queue]
  block_device,    \* [nb, wait_queue] : DEV_NON_BLOCKING_ACCESS, and the wait queue
                   \* of the condition variables of the requests in flight
  \* ---- sys_waittid with any argument (syscall/thread.rs)
  thread_call      \* the last such call: [task, tid, ret, n], ret = << >> when
                   \* the call did not return

syncVars == <<ready_queue, current, task_status, task_exit_code, task_res_tid,
              tasks, task_res_allocator, mutex, timers, time_ms,
              pc, iter, reg, counter, waitlist, sleeps, kernel_panic>>

pipeVars == <<ring, write_end_fd, read_end_fd, pipe_op, pipe_ret, accepted, delivered>>

procVars == <<proc_current, proc_ready, thread_state, is_zombie, pcb_alive, exit_code, children,
              parent, pid2process, signals, sigsegv_handler, handling_sig,
              file_mapped, last_trap, halted>>

memVars == <<frame_allocator, frame_data, memory_set, heap, file_mappings,
             user_res, mem_panic, mem_last>>

\* the state of the subsystems modelled after the processes
restVars == <<memVars, sigp, fdt, bitmap, efs, condvar, block_device, thread_call>>

vars == <<syncVars, pipeVars, procVars, restVars>>

\* what the steps of one subsystem leave alone
OtherThanSync == <<pipeVars, procVars, restVars>>
OtherThanPipe == <<syncVars, procVars, restVars>>
OtherThanProc == <<syncVars, pipeVars, restVars>>
OtherThanProcPipe == <<syncVars, restVars>>
OtherThanMem == <<syncVars, pipeVars, procVars, sigp, fdt, bitmap, efs, condvar, block_device, thread_call>>
OtherThanSig == <<syncVars, pipeVars, procVars, memVars, fdt, bitmap, efs, condvar, block_device, thread_call>>
OtherThanFd == <<syncVars, pipeVars, procVars, memVars, sigp, bitmap, efs, condvar, block_device, thread_call>>
OtherThanBitmap == <<syncVars, pipeVars, procVars, memVars, sigp, fdt, efs, condvar, block_device, thread_call>>
\* the steps on the condition variable and the block device change the
\* scheduler as well
OtherThanSyncCondvar == <<pipeVars, procVars, memVars, sigp, fdt, bitmap, efs, thread_call>>
OtherThanEfs == <<syncVars, pipeVars, procVars, memVars, sigp, fdt, bitmap, condvar, block_device, thread_call>>

Tcbs == 0 .. NThreads - 1
MainTcb == 0

(***************************************************************************)
(* Sequence helpers                                                        *)
(***************************************************************************)
Range(s) == {s[i] : i \in 1 .. Len(s)}

RemoveAt(s, i) == SubSeq(s, 1, i - 1) \o SubSeq(s, i + 1, Len(s))

IndexOf(s, x) == CHOOSE i \in 1 .. Len(s) : s[i] = x /\ \A j \in 1 .. i - 1 : s[j] # x

\* VecDeque::remove of the first element equal to x, if any
RemoveFirst(s, x) == IF x \in Range(s) THEN RemoveAt(s, IndexOf(s, x)) ELSE s

(***************************************************************************)
(* task/manager.rs : the FIFO ready queue                                  *)
(***************************************************************************)
AddFront(q, t) == <<t>> \o q

\* TaskManager::add
add_task(q, t) == Append(q, t)

\* TaskManager::fetch : the task taken and the queue left
fetch_task_head(q) == Head(q)
fetch_task_rest(q) == Tail(q)

RemoveTaskKeeps(q, t) == q

\* TaskManager::remove
remove_task(q, t) == RemoveFirst(q, t)

(***************************************************************************)
(* timer.rs                                                                *)
(***************************************************************************)
add_timer(ts, expire_ms, t) == ts \cup {[expire_ms |-> expire_ms, task |-> t]}

remove_timer(ts, t) == {tm \in ts : tm.task # t}

(***************************************************************************)
(* task/id.rs : RecycleAllocator                                           *)
(***************************************************************************)
RecycleAlloc_id(a) ==
  IF Len(a.recycled) > 0 THEN a.recycled[Len(a.recycled)] ELSE a.current

RecycleAlloc_after(a) ==
  IF Len(a.recycled) > 0
  THEN [a EXCEPT !.recycled = SubSeq(a.recycled, 1, Len(a.recycled) - 1)]
  ELSE [a EXCEPT !.current = a.current + 1]

RecycleDealloc(a, id) == [a EXCEPT !.recycled = Append(a.recycled, id)]

(***************************************************************************)
(* sync/mutex.rs : MutexBlocking                                           *)
(***************************************************************************)
\* lock, line 78: the caller blocks iff the mutex is locked
lock_blocks(m) == m.locked

LockForgetsWaiter(m, t) == [m EXCEPT !.locked = TRUE]

\* lock, lines 78-85: the inner state after lock by thread t
MutexBlocking_lock(m, t) ==
  IF m.locked
  THEN [m EXCEPT !.wait_queue = Append(@, t)]
  ELSE [m EXCEPT !.locked = TRUE]

UnlockAlwaysClears(m) ==
  IF Len(m.wait_queue) > 0
  THEN [locked |-> FALSE, wait_queue |-> Tail(m.wait_queue)]
  ELSE [m EXCEPT !.locked = FALSE]

\* unlock, lines 91-97: the inner state after unlock
MutexBlocking_unlock(m) ==
  IF Len(m.wait_queue) > 0
  THEN [m EXCEPT !.wait_queue = Tail(@)]
  ELSE [m EXCEPT !.locked = FALSE]

UnlockWakesLast(m) ==
  IF Len(m.wait_queue) > 0 THEN m.wait_queue[Len(m.wait_queue)] ELSE NoTask

\* unlock, line 91: the task woken (wait_queue.pop_front), or NoTask
unlock_waking_task(m) ==
  IF Len(m.wait_queue) > 0 THEN Head(m.wait_queue) ELSE NoTask

(***************************************************************************)
(* The user program of the threads (spec.md E3): main creates the workers, *)
(* every thread runs Iters times lock; counter += 1; unlock, the workers   *)
(* exit and main waits for each worker with waittid before it exits.       *)
(***************************************************************************)
AfterUnlock(t, left) ==
  IF left > 0 THEN "lock"
  ELSE IF t = MainTcb THEN (IF Len(waitlist) > 0 THEN "waittid" ELSE "exit")
  ELSE "exit"

\* where a thread continues when it is switched in again
Resume(p) ==
  CASE p = "lock_blocked" -> "load"
    [] p = "sleep_blocked" -> "lock"
    [] p = "relock_blocked" -> "unlock"
    [] p = "blk_blocked" -> "lock"
    [] OTHER -> p

Created == {t \in Tcbs : task_status[t] # "NoTcb"}

InitSync ==
  /\ ready_queue = <<MainTcb>>
  /\ current = NoTask
  /\ task_status = [t \in Tcbs |-> IF t = MainTcb THEN "Ready" ELSE "NoTcb"]
  /\ task_exit_code = [t \in Tcbs |-> << >>]
  /\ task_res_tid = [t \in Tcbs |-> IF t = MainTcb THEN <<0>> ELSE << >>]
  /\ tasks = <<MainTcb>>
  /\ task_res_allocator = [current |-> 1, recycled |-> << >>]
  /\ mutex = [locked |-> FALSE, wait_queue |-> << >>]
  /\ timers = {}
  /\ time_ms = 0
  /\ pc = [t \in Tcbs |-> IF t = MainTcb
                          THEN (IF NThreads > 1 THEN "create" ELSE "lock")
                          ELSE "none"]
  /\ iter = [t \in Tcbs |-> Iters]
  /\ reg = [t \in Tcbs |-> 0]
  /\ counter = 0
  /\ waitlist = << >>
  /\ sleeps = [t \in Tcbs |-> MaxSleeps]
  /\ kernel_panic = FALSE

(***************************************************************************)
(* task/processor.rs : run_tasks, the idle loop                            *)
(***************************************************************************)
run_tasks ==
  /\ UNCHANGED OtherThanSync
  /\ ~kernel_panic
  /\ current = NoTask
  /\ Len(ready_queue) > 0
  /\ LET t == fetch_task_head(ready_queue) IN
       /\ ready_queue' = fetch_task_rest(ready_queue)
       /\ task_status' = [task_status EXCEPT ![t] = "Running"]
       /\ current' = t
       /\ pc' = [pc EXCEPT ![t] = Resume(pc[t])]
  /\ UNCHANGED <<task_exit_code, task_res_tid, tasks, task_res_allocator, mutex,
                 timers, time_ms, iter, reg, counter, waitlist, sleeps, kernel_panic>>

\* a thread is in user mode and may trap
InUser(t) == ~kernel_panic /\ current = t /\ t # NoTask

SuspendKeepsCurrent(t) ==
  /\ task_status' = [task_status EXCEPT ![t] = "Ready"]
  /\ ready_queue' = add_task(ready_queue, t)
  /\ current' = t

(***************************************************************************)
(* task/mod.rs : suspend_current_and_run_next, as called by the timer arm  *)
(* of trap_handler (trap/mod.rs 85-88) and by sys_yield                    *)
(***************************************************************************)
suspend_current_and_run_next(t) ==
  /\ task_status' = [task_status EXCEPT ![t] = "Ready"]
  /\ ready_queue' = add_task(ready_queue, t)
  /\ current' = NoTask

\* trap_handler, Trap::Interrupt(SupervisorTimer): set_next_trigger();
\* suspend_current_and_run_next()
TimerInterrupt ==
  /\ UNCHANGED OtherThanSync
  /\ InUser(current)
  /\ pc[current] # "done"
  /\ suspend_current_and_run_next(current)
  /\ UNCHANGED <<task_exit_code, task_res_tid, tasks, task_res_allocator, mutex,
                 timers, time_ms, pc, iter, reg, counter, waitlist, sleeps,
                 kernel_panic>>

(***************************************************************************)
(* syscall/sync.rs : sys_mutex_lock, sys_mutex_unlock                      *)
(***************************************************************************)
\* wakeup_task (imported from task/manager.rs by mutex.rs, timer.rs and condvar.rs;
\* its body is not part of the source tree): the task becomes Ready, joins the
\* ready queue, and a timer still pending for it is removed.
wakeup_task(w) ==
  /\ task_status' = [task_status EXCEPT ![w] = "Ready"]
  /\ ready_queue' = add_task(ready_queue, w)
  /\ timers' = remove_timer(timers, w)

SysMutexLock(t) ==
  /\ UNCHANGED OtherThanSync
  /\ InUser(t)
  /\ pc[t] = "lock"
  /\ mutex' = MutexBlocking_lock(mutex, t)
  /\ IF lock_blocks(mutex)
     THEN \* block_current_and_run_next
          /\ task_status' = [task_status EXCEPT ![t] = "Blocked"]
          /\ current' = NoTask
          /\ pc' = [pc EXCEPT ![t] = "lock_blocked"]
     ELSE /\ pc' = [pc EXCEPT ![t] = "load"]
          /\ UNCHANGED <<task_status, current>>
  /\ UNCHANGED <<ready_queue, task_exit_code, task_res_tid, tasks,
                 task_res_allocator, timers, time_ms, iter, reg, counter,
                 waitlist, sleeps, kernel_panic>>

SysMutexUnlock(t) ==
  /\ UNCHANGED OtherThanSync
  /\ InUser(t)
  /\ pc[t] = "unlock"
  /\ IF ~mutex.locked
     THEN \* assert!(mutex_inner.locked)
          /\ kernel_panic' = TRUE
          /\ UNCHANGED <<mutex, task_status, ready_queue, timers, pc, iter>>
     ELSE LET w == unlock_waking_task(mutex) IN
          /\ mutex' = MutexBlocking_unlock(mutex)
          /\ IF w # NoTask
             THEN wakeup_task(w)
             ELSE UNCHANGED <<task_status, ready_queue, timers>>
          /\ iter' = [iter EXCEPT ![t] = @ - 1]
          /\ pc' = [pc EXCEPT ![t] = AfterUnlock(t, iter[t] - 1)]
          /\ UNCHANGED kernel_panic
  /\ UNCHANGED <<current, task_exit_code, task_res_tid, tasks, task_res_allocator,
                 time_ms, reg, counter, waitlist, sleeps>>

\* the critical section in user mode: counter += 1 as a load and a store
UserLoad(t) ==
  /\ UNCHANGED OtherThanSync
  /\ InUser(t)
  /\ pc[t] = "load"
  /\ reg' = [reg EXCEPT ![t] = counter]
  /\ pc' = [pc EXCEPT ![t] = "store"]
  /\ UNCHANGED <<ready_queue, current, task_status, task_exit_code, task_res_tid,
                 tasks, task_res_allocator, mutex, timers, time_ms, iter, counter,
                 waitlist, sleeps, kernel_panic>>

UserStore(t) ==
  /\ UNCHANGED OtherThanSync
  /\ InUser(t)
  /\ pc[t] = "store"
  /\ counter' = reg[t] + 1
  /\ pc' = [pc EXCEPT ![t] = "unlock"]
  /\ UNCHANGED <<ready_queue, current, task_status, task_exit_code, task_res_tid,
                 tasks, task_res_allocator, mutex, timers, time_ms, iter, reg,
                 waitlist, sleeps, kernel_panic>>

(***************************************************************************)
(* syscall/thread.rs : sys_thread_create, sys_waittid                      *)
(***************************************************************************)
\* tasks.push(None) while tasks.len() < tid + 1; tasks[tid] = Some(new)
tasks_with(ts, tid, new) ==
  [i \in 1 .. (IF Len(ts) < tid + 1 THEN tid + 1 ELSE Len(ts)) |->
     IF i = tid + 1 THEN new ELSE IF i <= Len(ts) THEN ts[i] ELSE NoTask]

SysThreadCreate(t) ==
  /\ UNCHANGED OtherThanSync
  /\ InUser(t)
  /\ pc[t] = "create"
  /\ \E new \in Tcbs :
       /\ task_status[new] = "NoTcb"
       /\ \A o \in Tcbs : o < new => task_status[o] # "NoTcb"
       /\ LET tid == RecycleAlloc_id(task_res_allocator) IN
            /\ task_res_allocator' = RecycleAlloc_after(task_res_allocator)
            /\ task_res_tid' = [task_res_tid EXCEPT ![new] = <<tid>>]
            /\ task_status' = [task_status EXCEPT ![new] = "Ready"]
            /\ ready_queue' = add_task(ready_queue, new)
            /\ tasks' = tasks_with(tasks, tid, new)
            /\ waitlist' = Append(waitlist, tid)
            /\ pc' = [pc EXCEPT ![new] = "lock",
                                ![t] = IF new = NThreads - 1 THEN "lock" ELSE "create"]
  /\ UNCHANGED <<current, task_exit_code, mutex, timers, time_ms, iter, reg,
                 counter, sleeps, kernel_panic>>

\* the value sys_waittid returns; -3 stands for the panic of an index out of bounds
waittid_result(t, tid) ==
  IF task_res_tid[t] = <<tid>> THEN -1
  ELSE IF tid + 1 > Len(tasks) THEN -3
  ELSE IF tasks[tid + 1] = NoTask THEN -1
  ELSE IF task_exit_code[tasks[tid + 1]] # << >> THEN task_exit_code[tasks[tid + 1]][1]
  ELSE -2

SysWaittid(t) ==
  /\ UNCHANGED OtherThanSync
  /\ InUser(t)
  /\ pc[t] = "waittid"
  /\ LET tid == Head(waitlist)
         r == waittid_result(t, tid) IN
       IF r = -3
       THEN kernel_panic' = TRUE /\ UNCHANGED <<tasks, waitlist, pc>>
       ELSE IF r = -2
       THEN pc' = [pc EXCEPT ![t] = "yield"] /\ UNCHANGED <<tasks, waitlist, kernel_panic>>
       ELSE /\ tasks' = IF tasks[tid + 1] # NoTask
                        THEN [tasks EXCEPT ![tid + 1] = NoTask] ELSE tasks
            /\ waitlist' = Tail(waitlist)
            /\ pc' = [pc EXCEPT ![t] = IF Len(waitlist) > 1 THEN "waittid" ELSE "exit"]
            /\ UNCHANGED kernel_panic
  /\ UNCHANGED <<ready_queue, current, task_status, task_exit_code, task_res_tid,
                 task_res_allocator, mutex, timers, time_ms, iter, reg, counter,
                 sleeps>>

\* syscall/process.rs : sys_yield
SysYield(t) ==
  /\ UNCHANGED OtherThanSync
  /\ InUser(t)
  /\ pc[t] = "yield"
  /\ suspend_current_and_run_next(t)
  /\ pc' = [pc EXCEPT ![t] = "waittid"]
  /\ UNCHANGED <<task_exit_code, task_res_tid, tasks, task_res_allocator, mutex,
                 timers, time_ms, iter, reg, counter, waitlist, sleeps, kernel_panic>>

(***************************************************************************)
(* task/mod.rs : exit_current_and_run_next                                 *)
(***************************************************************************)
RECURSIVE DeallocAll(_, _)
DeallocAll(a, ids) ==
  IF Len(ids) = 0 THEN a ELSE DeallocAll(RecycleDealloc(a, Head(ids)), Tail(ids))

RECURSIVE RemoveAll(_, _)
RemoveAll(q, ts) ==
  IF Len(ts) = 0 THEN q
  ELSE RemoveAll(IF Head(ts) = NoTask THEN q ELSE remove_task(q, Head(ts)), Tail(ts))

\* the tids still held (res is Some) by the threads in the tasks vector, in order
RECURSIVE HeldTids(_, _)
HeldTids(ts, res) ==
  IF Len(ts) = 0 THEN << >>
  ELSE (IF Head(ts) # NoTask THEN res[Head(ts)] ELSE << >>) \o HeldTids(Tail(ts), res)

\* sys_exit -> exit_current_and_run_next of thread t
sys_exit(t) ==
  /\ LET tid == task_res_tid[t][1]
         res1 == [task_res_tid EXCEPT ![t] = << >>]
         alloc1 == RecycleDealloc(task_res_allocator, tid) IN
       /\ task_exit_code' = [task_exit_code EXCEPT ![t] = <<0>>]
       /\ IF tid = 0
          THEN \* the main thread: the whole process exits
               /\ ready_queue' = RemoveAll(ready_queue, tasks)
               /\ timers' = {tm \in timers : tm.task \notin Range(tasks)}
               /\ task_res_allocator' = DeallocAll(alloc1, HeldTids(tasks, res1))
               /\ task_res_tid' = [x \in Tcbs |-> IF x \in Range(tasks) THEN << >> ELSE res1[x]]
               /\ tasks' = SubSeq(tasks, 1, 1)
          ELSE /\ task_res_allocator' = alloc1
               /\ task_res_tid' = res1
               /\ UNCHANGED <<ready_queue, timers, tasks>>
  /\ current' = NoTask
  /\ pc' = [pc EXCEPT ![t] = "done"]
  /\ UNCHANGED <<task_status, mutex, time_ms, iter, reg, counter, waitlist, sleeps,
                 kernel_panic>>

SysExit(t) ==
  /\ UNCHANGED OtherThanSync
  /\ InUser(t)
  /\ pc[t] = "exit"
  /\ sys_exit(t)

(***************************************************************************)
(* syscall/sync.rs : sys_sleep, and the passing of time                    *)
(***************************************************************************)
SysSleep(t) ==
  /\ UNCHANGED OtherThanSync
  /\ InUser(t)
  /\ pc[t] = "lock"
  /\ sleeps[t] > 0
  /\ \E ms \in 0 .. MaxTime :
       timers' = add_timer(timers, time_ms + ms, t)
  /\ sleeps' = [sleeps EXCEPT ![t] = @ - 1]
  \* block_current_and_run_next
  /\ task_status' = [task_status EXCEPT ![t] = "Blocked"]
  /\ current' = NoTask
  /\ pc' = [pc EXCEPT ![t] = "sleep_blocked"]
  /\ UNCHANGED <<ready_queue, task_exit_code, task_res_tid, tasks,
                 task_res_allocator, mutex, time_ms, iter, reg, counter, waitlist,
                 kernel_panic>>

Tick ==
  /\ UNCHANGED OtherThanSync
  /\ ~kernel_panic
  /\ time_ms < 2 * MaxTime
  /\ time_ms' = time_ms + 1
  /\ UNCHANGED <<ready_queue, current, task_status, task_exit_code, task_res_tid,
                 tasks, task_res_allocator, mutex, timers, pc, iter, reg, counter,
                 waitlist, sleeps, kernel_panic>>

(***************************************************************************)
(* fs/pipe.rs : the ring buffer                                            *)
(***************************************************************************)
\* PipeRingBuffer::available_read
available_read(rb) ==
  IF rb.status = "Empty" THEN 0
  ELSE IF rb.tail > rb.head THEN rb.tail - rb.head
  ELSE rb.tail + RING_BUFFER_SIZE - rb.head

\* PipeRingBuffer::available_write
available_write(rb) ==
  IF rb.status = "Full" THEN 0 ELSE RING_BUFFER_SIZE - available_read(rb)

\* PipeRingBuffer::write_byte
write_byte(rb, byte) ==
  [rb EXCEPT !.arr = [rb.arr EXCEPT ![rb.tail] = byte],
             !.tail = (rb.tail + 1) % RING_BUFFER_SIZE,
             !.status = IF (rb.tail + 1) % RING_BUFFER_SIZE = rb.head
                        THEN "Full" ELSE "Normal"]

\* PipeRingBuffer::read_byte : the byte read
read_byte_value(rb) == rb.arr[rb.head]

ReadByteNoEmpty(rb) ==
  [rb EXCEPT !.head = (rb.head + 1) % RING_BUFFER_SIZE, !.status = "Normal"]

\* PipeRingBuffer::read_byte : the buffer after the read
read_byte(rb) ==
  [rb EXCEPT !.head = (rb.head + 1) % RING_BUFFER_SIZE,
             !.status = IF (rb.head + 1) % RING_BUFFER_SIZE = rb.tail
                        THEN "Empty" ELSE "Normal"]

\* the next n bytes of the buffer, in the order read_byte returns them
RECURSIVE read_bytes(_, _)
read_bytes(rb, n) ==
  IF n = 0 THEN << >> ELSE <<read_byte_value(rb)>> \o read_bytes(read_byte(rb), n - 1)

RECURSIVE after_reads(_, _)
after_reads(rb, n) == IF n = 0 THEN rb ELSE after_reads(read_byte(rb), n - 1)

RECURSIVE after_writes(_, _)
after_writes(rb, bytes) ==
  IF Len(bytes) = 0 THEN rb ELSE after_writes(write_byte(rb, Head(bytes)), Tail(bytes))

Min(a, b) == IF a < b THEN a ELSE b

\* the process of a thread: thread 1 is a process of its own, the others are
\* the threads of a second process
PProc(u) == IF u <= 1 THEN 1 ELSE 2

PThreads == 1 .. NPipeThreads
PProcs == {1, 2}

\* the threads of the process scenario: 0 is the main thread of initproc
PTcbs == 0 .. NProcThreads
\* TaskControlBlock.process
ThreadProc(u) == IF u = 0 THEN 0 ELSE PProc(u)
\* TaskUserRes.tid : threads 0, 1 and 2 are main threads
ThreadTid(u) == IF u <= 2 THEN 0 ELSE u - 2
\* the threads that can have a sys_read or a sys_write in progress
IoThreads == 1 .. (IF NPipeThreads > NProcThreads THEN NPipeThreads ELSE NProcThreads)

\* strong references to the write end: the fd tables that hold it, and the
\* clone every running sys_write holds (syscall/fs.rs: file.clone())
write_end_strong ==
  Cardinality({p \in PProcs : write_end_fd[p]})
    + Cardinality({u \in IoThreads : pipe_op[u].kind = "write"})

\* PipeRingBuffer::all_write_ends_closed
all_write_ends_closed == write_end_strong = 0

\* the bytes a writer passes: the n bytes after the `sent` sent so far, as u8
NewBytes(sent, n) == [i \in 1 .. n |-> (sent + i) % 256]

NoOp == [kind |-> "none", want |-> 0, already |-> 0]

InitPipe ==
  /\ ring = [arr |-> [i \in 0 .. RING_BUFFER_SIZE - 1 |-> 0],
             head |-> 0, tail |-> 0, status |-> "Empty"]
  /\ write_end_fd = [p \in PProcs |-> TRUE]
  /\ read_end_fd = [p \in PProcs |-> TRUE]
  /\ pipe_op = [u \in IoThreads |-> NoOp]
  /\ pipe_ret = [want |-> -1, ret |-> 0]
  /\ accepted = << >>
  /\ delivered = << >>

INITPROC == 0
NoProc == NoTask
Procs == {INITPROC} \cup PProcs

\* ProcessControlBlock::getpid : initproc, then the processes in the order of
\* their creation (pid_alloc)
getpid(p) == p

NoTrap == [cause |-> "none", id |-> "none", arg |-> 0, ret |-> 0, code |-> 0]

\* The state after process 1 (a child of initproc) has called sys_pipe and
\* sys_fork: it runs in user mode, its child 2 is in the ready queue and has
\* not run yet, and initproc is in the ready queue, suspended in a sys_yield.
InitProcWith(mapped) ==
  /\ proc_current = 1
  /\ proc_ready = <<0, 2>>
  /\ thread_state = [u \in PTcbs |-> IF u = 0 THEN "Ready"
                                     ELSE IF u = 1 THEN "Running"
                                     ELSE IF u = 2 THEN "Fresh" ELSE "NoTcb"]
  /\ is_zombie = [p \in Procs |-> FALSE]
  /\ pcb_alive = [p \in Procs |-> TRUE]
  /\ exit_code = [p \in Procs |-> 0]
  /\ children = [p \in Procs |-> IF p = INITPROC THEN <<1>>
                                 ELSE IF p = 1 THEN <<2>> ELSE << >>]
  /\ parent = [p \in Procs |-> IF p = INITPROC THEN NoProc
                               ELSE IF p = 1 THEN INITPROC ELSE 1]
  /\ pid2process = {getpid(p) : p \in Procs}
  /\ signals = [p \in Procs |-> {}]
  /\ sigsegv_handler = [p \in Procs |-> FALSE]
  /\ handling_sig = [p \in Procs |-> -1]
  /\ file_mapped = mapped
  /\ last_trap = NoTrap
  /\ halted = "no"

InitProc == InitProcWith([p \in Procs |-> FALSE])

(***************************************************************************)
(* mm/frame_allocator.rs : the stack allocator of physical frames          *)
(***************************************************************************)
\* Option::None of a physical page number
NoFrame == NoTask

\* the physical page numbers the allocator hands out in the model: the last
\* NFrames frames below MEMORY_END (the frames below them are in use)
FramePool == (MEMORY_END_PPN - NFrames) .. (MEMORY_END_PPN - 1)

\* StackFrameAllocator::alloc
alloc(fa) ==
  IF fa.recycled # << >>
  THEN [some |-> TRUE, ppn |-> fa.recycled[Len(fa.recycled)],
        fa |-> [fa EXCEPT !.recycled = SubSeq(@, 1, Len(@) - 1)]]
  ELSE IF fa.current = fa.end
  THEN [some |-> FALSE, ppn |-> NoFrame, fa |-> fa]
  ELSE [some |-> TRUE, ppn |-> fa.current, fa |-> [fa EXCEPT !.current = @ + 1]]

\* StackFrameAllocator::dealloc : the validity check, and the push
dealloc_valid(fa, ppn) ==
  ~(ppn >= fa.current \/ \E i \in 1 .. Len(fa.recycled) : fa.recycled[i] = ppn)

dealloc(fa, ppn) == [fa EXCEPT !.recycled = Append(@, ppn)]

\* let b = v in F(b) : the value v is computed once, whatever the number of
\* places F uses it
Bind(v, F(_)) == CHOOSE y \in {F(b) : b \in {v}} : TRUE

\* The operations of mm/ are functions of a context
\*   [fa, data, panic, page_table, areas]
\* : the frame allocator, the contents of the frames, whether an assert! or an
\* unwrap() has failed, and the page table and the areas of the MemorySet the
\* operation works on.  Nothing runs after a panic.

\* frame_alloc : FrameTracker::new clears the frame
frame_alloc(C) ==
  LET r == alloc(C.fa) IN
    IF r.some
    THEN [some |-> TRUE, ppn |-> r.ppn,
          c |-> [C EXCEPT !.fa = r.fa, !.data[r.ppn] = 0]]
    ELSE [some |-> FALSE, ppn |-> NoFrame, c |-> C]

\* frame_alloc().unwrap()
frame_alloc_unwrap(C) ==
  LET r == frame_alloc(C) IN
    IF r.some THEN r ELSE [r EXCEPT !.c.panic = TRUE]

\* frame_dealloc, called by the drop of a FrameTracker
frame_dealloc(C, ppn) ==
  IF C.panic THEN C
  ELSE IF dealloc_valid(C.fa, ppn) THEN [C EXCEPT !.fa = dealloc(C.fa, ppn)]
  ELSE [C EXCEPT !.panic = TRUE]

\* the drop of a Vec<FrameTracker>, front to back
RECURSIVE drop_frames(_, _)
drop_frames(C, frames) ==
  IF frames = << >> THEN C
  ELSE Bind(frame_dealloc(C, Head(frames)), LAMBDA c : drop_frames(c, Tail(frames)))

(***************************************************************************)
(* mm/page_table.rs : the three-level page table                           *)
(***************************************************************************)
\* VirtPageNum::indexes : the table of the second level and the leaf table
\* that hold the entry of a virtual page (9 bits per level)
L1Index(vpn) == vpn \div 262144
LeafIndex(vpn) == vpn \div 512

\* a page table is [root_ppn, frames, l1, l2, pte]: l1 and l2 give the frames of
\* the tables of the second level and of the leaf tables that exist, pte the
\* valid leaf entries [ppn, flags]
PageTable_new(C) ==
  LET r == frame_alloc_unwrap(C) IN
    [r.c EXCEPT !.page_table =
       [root_ppn |-> r.ppn, frames |-> <<r.ppn>>, l1 |-> << >>, l2 |-> << >>,
        pte |-> << >>]]

\* PageTable::find_pte_create : the tables on the way are allocated
find_pte_create(C, vpn) ==
  Bind(IF L1Index(vpn) \in DOMAIN C.page_table.l1 THEN C
       ELSE Bind(frame_alloc_unwrap(C), LAMBDA r :
              IF ~r.some THEN r.c
              ELSE [r.c EXCEPT !.page_table.l1 = (L1Index(vpn) :> r.ppn) @@ @,
                               !.page_table.frames = Append(@, r.ppn)]),
       LAMBDA a :
         IF a.panic \/ LeafIndex(vpn) \in DOMAIN a.page_table.l2 THEN a
         ELSE Bind(frame_alloc_unwrap(a), LAMBDA r :
                IF ~r.some THEN r.c
                ELSE [r.c EXCEPT !.page_table.l2 = (LeafIndex(vpn) :> r.ppn) @@ @,
                                 !.page_table.frames = Append(@, r.ppn)]))

\* PageTable::find_pte : None when a table on the way does not exist
find_pte_some(pt, vpn) == LeafIndex(vpn) \in DOMAIN pt.l2

\* PageTableEntry::is_valid of the entry find_pte returns
pte_valid(pt, vpn) == vpn \in DOMAIN pt.pte

\* PageTable::map
PageTable_map(C, vpn, ppn, flags) ==
  IF C.panic THEN C
  ELSE Bind(find_pte_create(C, vpn), LAMBDA a :
         IF a.panic THEN a
         ELSE IF pte_valid(a.page_table, vpn) THEN [a EXCEPT !.panic = TRUE]
         ELSE [a EXCEPT !.page_table.pte = (vpn :> [ppn |-> ppn, flags |-> flags]) @@ @])

\* PageTable::unmap
PageTable_unmap(C, vpn) ==
  IF C.panic THEN C
  ELSE IF ~find_pte_some(C.page_table, vpn) \/ ~pte_valid(C.page_table, vpn)
  THEN [C EXCEPT !.panic = TRUE]
  ELSE [C EXCEPT !.page_table.pte = [v \in DOMAIN @ \ {vpn} |-> @[v]]]

(***************************************************************************)
(* mm/address.rs, mm/memory_set.rs : areas and address spaces              *)
(***************************************************************************)
\* VirtAddr::floor and VirtAddr::ceil
va_floor(va) == va \div PAGE_SIZE
va_ceil(va) == IF va = 0 THEN 0 ELSE (va + (PAGE_SIZE - 1)) \div PAGE_SIZE

\* SimpleRange::new : assert!(start <= end)
VPNRange_valid(start, end) == start <= end

\* MapArea::new with MapType::Framed: the pages [start, end), no frame yet
MapArea_new(start_vpn, end_vpn, perm) ==
  [start |-> start_vpn, end |-> end_vpn, data_frames |-> << >>, map_perm |-> perm]

\* MapArea::from_another
MapArea_from_another(another) ==
  [start |-> another.start, end |-> another.end, data_frames |-> << >>,
   map_perm |-> another.map_perm]

\* MapArea::map_one of area i (Framed): BTreeMap::insert drops the tracker it
\* replaces
map_one(C, i, vpn) ==
  IF C.panic THEN C
  ELSE Bind(frame_alloc_unwrap(C), LAMBDA r :
         IF ~r.some THEN r.c
         ELSE Bind([r.c EXCEPT !.areas[i].data_frames = (vpn :> r.ppn) @@ @], LAMBDA c1 :
                Bind(IF vpn \in DOMAIN C.areas[i].data_frames
                     THEN frame_dealloc(c1, C.areas[i].data_frames[vpn]) ELSE c1,
                     LAMBDA c2 : PageTable_map(c2, vpn, r.ppn, C.areas[i].map_perm))))

UnmapOneKeepsEntry(C, i, vpn) ==
  IF C.panic THEN C
  ELSE IF vpn \in DOMAIN C.areas[i].data_frames
  THEN frame_dealloc(
         [C EXCEPT !.areas[i].data_frames = [v \in DOMAIN @ \ {vpn} |-> @[v]]],
         C.areas[i].data_frames[vpn])
  ELSE C

\* MapArea::unmap_one of area i
unmap_one(C, i, vpn) ==
  IF C.panic THEN C
  ELSE Bind(IF vpn \in DOMAIN C.areas[i].data_frames
            THEN frame_dealloc(
                   [C EXCEPT !.areas[i].data_frames = [v \in DOMAIN @ \ {vpn} |-> @[v]]],
                   C.areas[i].data_frames[vpn])
            ELSE C,
            LAMBDA c1 : PageTable_unmap(c1, vpn))

\* for vpn in VPNRange::new(v, end) { map_one } ; the range is valid
RECURSIVE map_pages(_, _, _, _)
map_pages(C, i, v, end) ==
  IF C.panic \/ v = end THEN C
  ELSE Bind(map_one(C, i, v), LAMBDA c : map_pages(c, i, v + 1, end))

RECURSIVE unmap_pages(_, _, _, _)
unmap_pages(C, i, v, end) ==
  IF C.panic \/ v = end THEN C
  ELSE Bind(unmap_one(C, i, v), LAMBDA c : unmap_pages(c, i, v + 1, end))

\* MapArea::shrink_to
MapArea_shrink_to(C, i, new_end) ==
  IF ~VPNRange_valid(new_end, C.areas[i].end) THEN [C EXCEPT !.panic = TRUE]
  ELSE Bind(unmap_pages(C, i, new_end, C.areas[i].end), LAMBDA c1 :
         IF c1.panic THEN c1
         ELSE IF ~VPNRange_valid(c1.areas[i].start, new_end) THEN [c1 EXCEPT !.panic = TRUE]
         ELSE [c1 EXCEPT !.areas[i].end = new_end])

\* MapArea::append_to
MapArea_append_to(C, i, new_end) ==
  IF ~VPNRange_valid(C.areas[i].end, new_end) THEN [C EXCEPT !.panic = TRUE]
  ELSE Bind(map_pages(C, i, C.areas[i].end, new_end), LAMBDA c1 :
         IF c1.panic THEN c1
         ELSE IF ~VPNRange_valid(c1.areas[i].start, new_end) THEN [c1 EXCEPT !.panic = TRUE]
         ELSE [c1 EXCEPT !.areas[i].end = new_end])

\* areas.iter().find(|area| area.vpn_range.get_start() == start) : the index of
\* the first such area, 0 for None
find_area(areas, start_vpn) ==
  LET I == {i \in 1 .. Len(areas) : areas[i].start = start_vpn} IN
    IF I = {} THEN 0 ELSE CHOOSE i \in I : \A j \in I : i <= j

\* MemorySet::shrink_to and MemorySet::append_to : [c, result]
MemorySet_shrink_to(C, start_va, new_end_va) ==
  LET i == find_area(C.areas, va_floor(start_va)) IN
    IF i = 0 THEN [c |-> C, result |-> FALSE]
    ELSE [c |-> MapArea_shrink_to(C, i, va_ceil(new_end_va)), result |-> TRUE]

MemorySet_append_to(C, start_va, new_end_va) ==
  LET i == find_area(C.areas, va_floor(start_va)) IN
    IF i = 0 THEN [c |-> C, result |-> FALSE]
    ELSE [c |-> MapArea_append_to(C, i, va_ceil(new_end_va)), result |-> TRUE]

\* MemorySet::push without data (insert_framed_area): the area is mapped and
\* becomes the last of the areas
MemorySet_push(C, area) ==
  IF C.panic \/ ~VPNRange_valid(area.start, area.end) THEN [C EXCEPT !.panic = TRUE]
  ELSE Bind([C EXCEPT !.areas = Append(@, area)], LAMBDA c :
         map_pages(c, Len(c.areas), area.start, area.end))

\* MemorySet::remove_area_with_start_vpn
remove_area_with_start_vpn(C, start_vpn) ==
  LET i == find_area(C.areas, start_vpn) IN
    IF i = 0 THEN C
    ELSE Bind(unmap_pages(C, i, C.areas[i].start, C.areas[i].end), LAMBDA c1 :
           IF c1.panic THEN c1 ELSE [c1 EXCEPT !.areas = RemoveAt(@, i)])

\* the frames of the data_frames of an area, in the order of the BTreeMap
RECURSIVE frames_of(_, _, _)
frames_of(df, v, end) ==
  IF v >= end THEN << >>
  ELSE (IF v \in DOMAIN df THEN <<df[v]>> ELSE << >>) \o frames_of(df, v + 1, end)

\* MemorySet::recycle_data_pages : areas.clear() drops the frames of every area;
\* the page table keeps its entries
RECURSIVE drop_areas(_, _)
drop_areas(C, areas) ==
  IF areas = << >> THEN C
  ELSE Bind(drop_frames(C, frames_of(Head(areas).data_frames, Head(areas).start,
                                     Head(areas).end)),
            LAMBDA c : drop_areas(c, Tail(areas)))

recycle_data_pages(C) == [drop_areas(C, C.areas) EXCEPT !.areas = << >>]

\* the frame of the kernel image that holds the trampoline: a frame below the
\* frames of the allocator
strampoline_ppn == MEMORY_END_PPN - NFrames - 1

\* MemorySet::new_bare and map_trampoline
MemorySet_new_user(C) ==
  Bind([PageTable_new(C) EXCEPT !.areas = << >>], LAMBDA c :
    PageTable_map(c, TRAMPOLINE_VPN, strampoline_ppn, {"R", "X"}))

CopyNoPage(C, src_pt, v, end) == C

\* the data copy of MemorySet::from_existed_user for the pages [v, end) of an
\* area: translate(vpn).unwrap().ppn() in both address spaces
RECURSIVE copy_pages(_, _, _, _)
copy_pages(C, src_pt, v, end) ==
  IF C.panic \/ v = end THEN C
  ELSE IF ~(/\ find_pte_some(src_pt, v) /\ pte_valid(src_pt, v)
            /\ find_pte_some(C.page_table, v) /\ pte_valid(C.page_table, v))
  THEN [C EXCEPT !.panic = TRUE]
  ELSE Bind([C EXCEPT !.data[C.page_table.pte[v].ppn] = C.data[src_pt.pte[v].ppn]],
            LAMBDA c : copy_pages(c, src_pt, v + 1, end))

RECURSIVE copy_areas(_, _, _)
copy_areas(C, src_pt, areas) ==
  IF C.panic \/ areas = << >> THEN C
  ELSE Bind(MemorySet_push(C, MapArea_from_another(Head(areas))), LAMBDA c1 :
         Bind(copy_pages(c1, src_pt, Head(areas).start, Head(areas).end), LAMBDA c2 :
           copy_areas(c2, src_pt, Tail(areas))))

\* MemorySet::from_existed_user : C carries the allocator and the frames, and
\* comes back with the page table and the areas of the copy
from_existed_user(C, src) ==
  Bind(MemorySet_new_user(C), LAMBDA c : copy_areas(c, src.page_table, src.areas))

(***************************************************************************)
(* task/id.rs : the user resources of a thread                             *)
(***************************************************************************)
\* trap_cx_bottom_from_tid, as a page number: TRAP_CONTEXT is the page below
\* the trampoline
trap_cx_vpn(tid) == TRAMPOLINE_VPN - 1 - tid

\* ustack_bottom_from_tid
ustack_bottom_from_tid(ustack_base, tid) == ustack_base + tid * (PAGE_SIZE + USER_STACK_SIZE)

\* TaskUserRes::alloc_user_res
alloc_user_res(C, ustack_base, tid) ==
  LET bottom == ustack_bottom_from_tid(ustack_base, tid) IN
    Bind(MemorySet_push(C, MapArea_new(va_floor(bottom), va_ceil(bottom + USER_STACK_SIZE),
                                       {"R", "W", "U"})),
         LAMBDA c1 :
           IF c1.panic THEN c1
           ELSE MemorySet_push(c1, MapArea_new(trap_cx_vpn(tid), trap_cx_vpn(tid) + 1,
                                               {"R", "W"})))

\* TaskUserRes::dealloc_user_res
dealloc_user_res(C, ustack_base, tid) ==
  Bind(remove_area_with_start_vpn(C, va_floor(ustack_bottom_from_tid(ustack_base, tid))),
       LAMBDA c1 : IF c1.panic THEN c1 ELSE remove_area_with_start_vpn(c1, trap_cx_vpn(tid)))

(***************************************************************************)
(* The address space of a new process                                      *)
(***************************************************************************)
\* the program of the model has one loadable segment of one page, readable,
\* writable and executable, at the page user programs are linked at
ElfStartVpn == 16
ElfPages == 1
ElfData == 1

MemProcs == {1, 2}

NoMemorySet == [alive |-> FALSE, page_table |-> << >>, areas |-> << >>]

\* the context of an operation on the address space of process m
Ctx(m) ==
  [fa |-> frame_allocator, data |-> frame_data, panic |-> FALSE,
   page_table |-> memory_set[m].page_table, areas |-> memory_set[m].areas]

\* the context of an operation that builds a new address space
NewCtx(fa, data) ==
  [fa |-> fa, data |-> data, panic |-> FALSE, page_table |-> << >>, areas |-> << >>]

\* MemorySet::copy_data of one page of data
copy_elf_data(C) ==
  IF C.panic THEN C
  ELSE [C EXCEPT !.data[C.page_table.pte[ElfStartVpn].ppn] = ElfData]

\* MemorySet::from_elf : the trampoline and the segment; the stack base is the
\* page after the guard page
from_elf(C) ==
  Bind(MemorySet_new_user(C), LAMBDA c1 :
    Bind(MemorySet_push(c1, MapArea_new(ElfStartVpn, ElfStartVpn + ElfPages,
                                        {"R", "W", "X", "U"})),
         LAMBDA c2 : copy_elf_data(c2)))

ustack_base_of_elf == (ElfStartVpn + ElfPages) * PAGE_SIZE + PAGE_SIZE

\* ProcessControlBlock::new : from_elf, then the main thread with its user
\* resources (TaskControlBlock::new with alloc_user_res = true)
NewProcessCtx ==
  Bind(from_elf(NewCtx([current |-> MEMORY_END_PPN - NFrames, end |-> MEMORY_END_PPN,
                        recycled |-> << >>],
                       [f \in FramePool |-> 0])),
       LAMBDA c : alloc_user_res(c, ustack_base_of_elf, 0))

NoMemOp == [op |-> "none", proc |-> 0, arg |-> 0, ret |-> 0, n |-> 0]

\* process 1 is new; process 2 comes into being by fork
InitMemWith(fm) ==
  /\ \E c \in {NewProcessCtx} :
       /\ frame_allocator = c.fa
       /\ frame_data = c.data
       /\ memory_set = [m \in MemProcs |->
                          IF m = 1 THEN [alive |-> TRUE, page_table |-> c.page_table,
                                         areas |-> c.areas]
                          ELSE NoMemorySet]
  /\ heap = [m \in MemProcs |-> [heap_bottom |-> ustack_base_of_elf,
                                 program_brk |-> ustack_base_of_elf]]
  /\ file_mappings = [m \in MemProcs |-> IF m = 1 THEN fm ELSE << >>]
  /\ user_res = [m \in MemProcs |-> IF m = 1 THEN [tids |-> {0}, tasks_len |-> 1]
                                    ELSE [tids |-> {}, tasks_len |-> 0]]
  /\ mem_panic = FALSE
  /\ mem_last = NoMemOp

InitMem == InitMemWith(<< >>)

\* the trap context of the thread: sepc is the program (MainPc) or the handler
\* of a signal
MainPc == MAX_SIG + 1
HandlerPc(s) == MAX_SIG + 2 + s

\* SignalAction::default : no handler, mask 40 (bits 3 and 5)
DefaultAction == [handler |-> 0, mask |-> {SIGQUIT, SIGTRAP}]

\* a trap of the thread: the system call and its result, the signal handed to
\* its user handler (or -1), the signals call_kernel_signal_handler was called for
SigLast(op, ret) == [op |-> op, ret |-> ret, delivered |-> -1, kernel |-> {}]

NoSigTrap == SigLast("none", 0)

\* the signal fields of a new process (ProcessControlBlock::new), its main
\* thread in user mode
InitSig ==
  sigp = [signals |-> {}, signal_mask |-> {},
         signal_actions |-> [s \in 0 .. MAX_SIG |-> DefaultAction],
         handling_sig |-> -1, trap_ctx_backup |-> << >>,
         killed |-> FALSE, frozen |-> FALSE,
         trap_cx |-> [sepc |-> MainPc],
         where |-> "user", exit_code |-> 0, last |-> NoSigTrap]

NoFdCall == [op |-> "none", arg |-> 0, ret |-> 0, ret2 |-> 0]

\* ProcessControlBlock::init_fd_table
init_fd_table == <<"stdin", "stdout", "stdout">>

InitFd == fdt = [fd_table |-> init_fd_table, last |-> NoFdCall]

(***************************************************************************)
(* easy-fs/src/bitmap.rs : a bitmap kept in blocks of the device.  A block  *)
(* is read as 64 words of 64 bits; a word is modelled by the set of the     *)
(* positions of its bits that are 1, position 0 being the lowest bit.       *)
(***************************************************************************)
\* the bitmap blocks of the model (Bitmap.blocks)
NBitmapBlocks == 2

\* the operations on the bitmap the model follows
MaxBitmapOps == 3

BLOCK_SZ == 512

\* type BitmapBlock = [u64; 64] : the words of a block, the bits of a word
BitmapBlockLen == 64
U64Bits == 64

BLOCK_BITS == BLOCK_SZ * 8

\* Bitmap::maximum
maximum == NBitmapBlocks * BLOCK_BITS

BlockIds == 0 .. (NBitmapBlocks - 1)
WordIds == 0 .. (BitmapBlockLen - 1)

\* u64::MAX
U64_MAX == 0 .. (U64Bits - 1)

\* u64::trailing_ones
trailing_ones(w) ==
  IF w = U64_MAX THEN U64Bits
  ELSE CHOOSE n \in U64_MAX : n \notin w /\ \A k \in 0 .. (n - 1) : k \in w

\* the blocks of a bitmap whose bits below n are 1 and whose other bits are 0 :
\* the blocks are zeroed when the file system is created, and n calls of alloc
\* on zeroed blocks leave them so
FilledTo(n) ==
  [b \in BlockIds |->
     [w \in WordIds |->
        {i \in U64_MAX : b * BLOCK_BITS + w * U64Bits + i < n}]]

NoBitmapCall == [op |-> "none", arg |-> 0, some |-> FALSE, ret |-> 0]

\* blocks: the blocks now; saved: the blocks before the last alloc;
\* last, prev: the last call and the one before; panic: the assert! of dealloc
\* has failed; n: the calls made
BitmapWith(blocks) ==
  [blocks |-> blocks, saved |-> blocks, last |-> NoBitmapCall,
   prev |-> NoBitmapCall, panic |-> FALSE, n |-> 0]

InitBitmap == bitmap = BitmapWith(FilledTo(0))

(***************************************************************************)
(* easy-fs : one file.  A block of the device is read as an index block     *)
(* (128 block numbers) or as a data block (512 bytes); the model keeps, for *)
(* each block, the entries and the bytes that are not 0.  Every block is    *)
(* zeroed by EasyFileSystem::create and by dealloc_data, and between two    *)
(* zeroings the file uses a block as an index block or as a data block,     *)
(* never as both.                                                           *)
(***************************************************************************)
INODE_DIRECT_COUNT == 28
INODE_INDIRECT1_COUNT == BLOCK_SZ \div 4
INODE_INDIRECT2_COUNT == INODE_INDIRECT1_COUNT * INODE_INDIRECT1_COUNT
DIRECT_BOUND == INODE_DIRECT_COUNT
INDIRECT1_BOUND == DIRECT_BOUND + INODE_INDIRECT1_COUNT

BLOCK_CACHE_SIZE == 16

\* the calls on the file the model follows, and the writes among them
MaxEfsOps == 4
MaxEfsWrites == 1

\* EasyFileSystem::create with one block of inode bitmap: 4096 inodes of 128
\* bytes, four to a block; and a device on which the data bitmap has
\* NBitmapBlocks blocks
InodeAreaBlocks == 1024
data_area_start_block == 1 + 1 + InodeAreaBlocks + NBitmapBlocks

\* a block of zeros
ZeroBlock == [idx |-> << >>, bytes |-> << >>]

\* DiskInode::initialize
DiskInode_initialize ==
  [size |-> 0, direct |-> [k \in 0 .. (INODE_DIRECT_COUNT - 1) |-> 0],
   indirect1 |-> 0, indirect2 |-> 0]

NoEfsCall == [op |-> "none", arg |-> 0, arg2 |-> 0, ret |-> 0]

\* disk: the blocks of the device that are not zero; queue: the queue of
\* BLOCK_CACHE_MANAGER, entries [block_id, cache, modified]; data_bitmap: the
\* blocks of the data bitmap; inode: the DiskInode of the file; panic: an
\* assert! or unwrap() of easy-fs has failed; last: the last call; n: the calls
\* made, prev: the call before the last; supplied: the blocks handed to
\* increase_size since the file was last empty; out: what the last call gave
\* back (the vector of clear_size, the buffer of read_at); buf: the buffer
\* last written; wr: where it was written, the writes made, and valid: the
\* file held the whole range then and has not been cleared since
EfsWith(bm) ==
  [disk |-> << >>, queue |-> << >>, data_bitmap |-> bm,
   inode |-> DiskInode_initialize, panic |-> FALSE,
   last |-> NoEfsCall, n |-> 0,
   supplied |-> << >>,
   out |-> << >>, buf |-> << >>,
   wr |-> [off |-> 0, len |-> 0, n |-> 0, valid |-> FALSE], prev |-> "none"]

InitEfs == efs = EfsWith(FilledTo(0))

\* the last call on the condition variable: the system call, its caller, the
\* thread it woke
NoCondvarCall == [op |-> "none", task |-> NoTask, woken |-> NoTask]

\* Condvar::new; DEV_NON_BLOCKING_ACCESS starts false (drivers/block.rs 16)
NoThreadCall == [task |-> NoTask, tid |-> 0, ret |-> << >>, n |-> 0]

InitCondvar ==
  /\ condvar = [wait_queue |-> << >>, last |-> NoCondvarCall]
  /\ block_device = [nb |-> FALSE, wait_queue |-> << >>]
  /\ thread_call = NoThreadCall

InitRest == InitMem /\ InitSig /\ InitFd /\ InitBitmap /\ InitEfs /\ InitCondvar

InitAll == InitSync /\ InitPipe /\ InitProc /\ InitRest

(***************************************************************************)
(* Specifications                                                          *)
(***************************************************************************)
ThreadStep(t) ==
  \/ SysThreadCreate(t)
  \/ SysMutexLock(t)
  \/ UserLoad(t)
  \/ UserStore(t)
  \/ SysMutexUnlock(t)
  \/ SysWaittid(t)
  \/ SysYield(t)
  \/ SysExit(t)

NextMutex ==
  \/ run_tasks
  \/ TimerInterrupt
  \/ \E t \in Tcbs : ThreadStep(t)

\* The idle loop always runs; the timer fires every 10 ms, so a thread that is
\* dispatched again and again does execute its next instruction.
SpecMutex ==
  /\ InitAll
  /\ [][NextMutex]_vars
  /\ WF_vars(run_tasks)
  /\ \A t \in Tcbs : SF_vars(ThreadStep(t))

NextSleep ==
  \/ run_tasks
  \/ TimerInterrupt
  \/ Tick
  \/ \E t \in Tcbs : ThreadStep(t)
  \/ \E t \in Tcbs : SysSleep(t)

SpecSleep ==
  /\ InitAll
  /\ [][NextSleep]_vars
  /\ WF_vars(run_tasks)
  /\ WF_vars(TimerInterrupt)
  /\ WF_vars(Tick)
  /\ \A t \in Tcbs : SF_vars(ThreadStep(t))

(***************************************************************************)
(* Properties of the blocking mutex and of the scheduler                   *)
(***************************************************************************)
InCS(t) == pc[t] \in {"load", "store", "unlock"}

\* a waiter that unlock has taken off the wait queue and that has not yet
\* returned from lock
HandedOff(t) == pc[t] = "lock_blocked" /\ t \notin Range(mutex.wait_queue)

Holders == {t \in Tcbs : InCS(t) \/ HandedOff(t)}

IsUnlockStep == \E t \in Tcbs : pc[t] = "unlock" /\ pc'[t] # "unlock"

C1_Exclusion ==
  /\ Cardinality(Holders) <= 1
  /\ mutex.locked <=> Holders # {}
  /\ ~mutex.locked => mutex.wait_queue = << >>

C1_UnlockHandsOff ==
  IsUnlockStep =>
    IF Len(mutex.wait_queue) > 0
    THEN /\ mutex'.locked
         /\ mutex'.wait_queue = Tail(mutex.wait_queue)
         /\ Holders' = {Head(mutex.wait_queue)}
         /\ task_status'[Head(mutex.wait_queue)] = "Ready"
         /\ \A u \in Range(mutex'.wait_queue) : task_status'[u] = "Blocked"
    ELSE ~mutex'.locked /\ Holders' = {}

\* C1: at most one thread is between a completed lock and its unlock; unlock
\* with waiters keeps locked = TRUE and hands the mutex to exactly one waiter,
\* the head of the wait queue, and clears locked only when no thread waits.
C1_MutualExclusionAndHandOff ==
  /\ []C1_Exclusion
  /\ [][C1_UnlockHandsOff]_vars
  /\ [][mutex.locked /\ ~mutex'.locked => mutex.wait_queue = << >>]_vars

\* unlock has handed the mutex to a waiter: locked stayed TRUE although no
\* thread is inside the critical section
C1_Witness ==
  /\ mutex.locked
  /\ \A u \in Tcbs : ~InCS(u)
  /\ \E t \in Tcbs : HandedOff(t) /\ task_status[t] = "Ready"

\* the thread that becomes the holder in this step, if any
Acquires(t) == t \notin Holders /\ t \in Holders'

C2_QueueIsFifo ==
  \/ mutex'.wait_queue = mutex.wait_queue
  \/ \E t \in Tcbs : mutex'.wait_queue = Append(mutex.wait_queue, t)
  \/ /\ Len(mutex.wait_queue) > 0
     /\ mutex'.wait_queue = Tail(mutex.wait_queue)

C2_NoOvertaking ==
  \A t \in Tcbs : Acquires(t) =>
    IF Len(mutex.wait_queue) > 0
    THEN t = Head(mutex.wait_queue) /\ mutex'.wait_queue = Tail(mutex.wait_queue)
    ELSE pc[t] = "lock" /\ Holders = {}

\* C2: waiters get the mutex in the order lock queued them: the wait queue
\* grows at its tail and shrinks at its head, the thread that gets the mutex
\* while threads wait is the head of the queue, and a thread calling lock gets
\* the mutex at once only when nobody holds it and nobody waits.
C2_FifoAcquisition == [][C2_QueueIsFifo /\ C2_NoOvertaking]_vars

\* the first of two queued waiters was woken, the second is still queued
C2_Witness ==
  \E t, u \in Tcbs :
    /\ t # u
    /\ HandedOff(t)
    /\ Len(mutex.wait_queue) > 0
    /\ Head(mutex.wait_queue) = u
    /\ iter[t] = Iters /\ iter[u] = Iters

AllDone == \A t \in Tcbs : pc[t] = "done"

IsDispatch == current = NoTask /\ current' # NoTask

\* the tasks of q keep their relative order in r, and those new in r are behind them
KeepsOrder(q, r) ==
  /\ \A a, b \in Range(q) \cap Range(r) :
       IndexOf(q, a) < IndexOf(q, b) => IndexOf(r, a) < IndexOf(r, b)
  /\ \A a \in Range(q) \cap Range(r) : \A n \in Range(r) \ Range(q) :
       IndexOf(r, a) < IndexOf(r, n)

\* C4: the idle loop dispatches the head of the ready queue, and every other
\* step keeps the queued tasks in order and puts a task it adds at the tail.
C4_FifoDispatch ==
  [][/\ IsDispatch => /\ current' = Head(ready_queue)
                      /\ ready_queue' = Tail(ready_queue)
                      /\ task_status'[current'] = "Running"
     /\ ~IsDispatch => KeepsOrder(ready_queue, ready_queue')
     /\ \A t \in Tcbs : task_status[t] # "Running" /\ task_status'[t] = "Running"
                          => IsDispatch /\ t = Head(ready_queue)]_vars

\* a task was dispatched while two others, one of them woken by unlock, queue
C4_Witness ==
  /\ current # NoTask
  /\ Len(ready_queue) >= 2
  /\ \E t \in Range(ready_queue) : HandedOff(t)

(***************************************************************************)
(* Properties of sys_sleep and the timer interrupt                         *)
(***************************************************************************)
\* the SupervisorTimer arm is the only step that takes the running thread off
\* the processor without moving it in its program
IsTimerArm == current # NoTask /\ current' = NoTask /\ pc' = pc

Expired == {tm \in timers : tm.expire_ms <= time_ms}

\* C5: a sleeper stays Blocked while the clock is below its expiry time, and
\* the timer interrupt handled at or after the expiry time takes every expired
\* sleeper off the timer heap and puts it, Ready, on the ready queue.
C5_TimerArmWakesExpired ==
  /\ [](\A tm \in timers : time_ms < tm.expire_ms => task_status[tm.task] = "Blocked")
  /\ [][IsTimerArm => \A tm \in Expired :
                        /\ tm \notin timers'
                        /\ task_status'[tm.task] = "Ready"
                        /\ tm.task \in Range(ready_queue')]_vars

(***************************************************************************)
(* Pipe::read, one pass from the loop head to a return or to the yield     *)
(***************************************************************************)
\* bytes this pass moves to the user buffer
read_pass_count(rb, want, already) == Min(available_read(rb), want - already)

\* "return" or "suspend"
read_pass_outcome(rb, want, already, closed) ==
  LET avail == available_read(rb)
      n == read_pass_count(rb, want, already) IN
    IF avail = 0 THEN (IF closed THEN "return" ELSE "suspend")
    ELSE IF already + n = want THEN "return"       \* lines 84-88
    ELSE IF closed THEN "return" ELSE "suspend"    \* buffer drained: loop again

ReadPass(u, want, already) ==
  LET n == read_pass_count(ring, want, already)
      \* the reader holds a clone of the read end, not of the write end
      closed == all_write_ends_closed
      out == read_pass_outcome(ring, want, already, closed) IN
    /\ delivered' = delivered \o read_bytes(ring, n)
    /\ ring' = after_reads(ring, n)
    /\ IF out = "return"
       THEN /\ pipe_op' = [pipe_op EXCEPT ![u] = NoOp]
            /\ pipe_ret' = [want |-> want, ret |-> already + n]
       ELSE /\ pipe_op' = [pipe_op EXCEPT ![u] =
                               [kind |-> "read", want |-> want, already |-> already + n]]
            /\ UNCHANGED pipe_ret
    /\ UNCHANGED <<write_end_fd, read_end_fd, accepted>>

\* sys_read on the read end (syscall/fs.rs), up to the first yield
SysPipeRead(u) ==
  /\ pipe_op[u].kind = "none"
  /\ read_end_fd[PProc(u)]
  /\ \E want \in OpLens : ReadPass(u, want, 0)
  /\ UNCHANGED OtherThanPipe

\* the reader is switched in again after suspend_current_and_run_next
PipeReadResume(u) ==
  /\ pipe_op[u].kind = "read"
  /\ ReadPass(u, pipe_op[u].want, pipe_op[u].already)
  /\ UNCHANGED OtherThanPipe

(***************************************************************************)
(* Pipe::write, one pass from the loop head to a return or to the yield    *)
(***************************************************************************)
write_pass_count(rb, want, already) == Min(available_write(rb), want - already)

write_pass_outcome(rb, want, already) ==
  IF available_write(rb) = 0 THEN "suspend"
  ELSE IF already + write_pass_count(rb, want, already) = want THEN "return"
  ELSE "suspend"

WritePass(u, want, already) ==
  LET n == write_pass_count(ring, want, already)
      bytes == NewBytes(Len(accepted), n)
      out == write_pass_outcome(ring, want, already) IN
    /\ accepted' = accepted \o bytes
    /\ ring' = after_writes(ring, bytes)
    /\ IF out = "return"
       THEN pipe_op' = [pipe_op EXCEPT ![u] = NoOp]     \* returns want
       ELSE pipe_op' = [pipe_op EXCEPT ![u] =
                          [kind |-> "write", want |-> want, already |-> already + n]]
    /\ UNCHANGED <<write_end_fd, read_end_fd, delivered, pipe_ret>>

\* bytes the writes in progress still have to pass
Pending ==
  LET RECURSIVE Sum(_)
      Sum(S) == IF S = {} THEN 0
                ELSE LET u == CHOOSE x \in S : TRUE IN
                       (pipe_op[u].want - pipe_op[u].already) + Sum(S \ {u})
  IN Sum({u \in IoThreads : pipe_op[u].kind = "write"})

\* sys_write on the write end (syscall/fs.rs), up to the first yield
SysPipeWrite(u) ==
  /\ pipe_op[u].kind = "none"
  /\ write_end_fd[PProc(u)]
  /\ \E want \in OpLens :
       /\ Len(accepted) + Pending + want <= MaxPipeBytes
       /\ WritePass(u, want, 0)
  /\ UNCHANGED OtherThanPipe

PipeWriteResume(u) ==
  /\ pipe_op[u].kind = "write"
  /\ WritePass(u, pipe_op[u].want, pipe_op[u].already)
  /\ UNCHANGED OtherThanPipe

\* sys_close of the write end / of the read end by a thread of process p
SysCloseWriteEnd(u) ==
  /\ pipe_op[u].kind = "none"
  /\ write_end_fd[PProc(u)]
  /\ write_end_fd' = [write_end_fd EXCEPT ![PProc(u)] = FALSE]
  /\ UNCHANGED <<ring, read_end_fd, pipe_op, pipe_ret, accepted, delivered>>
  /\ UNCHANGED OtherThanPipe

SysCloseReadEnd(u) ==
  /\ pipe_op[u].kind = "none"
  /\ read_end_fd[PProc(u)]
  /\ read_end_fd' = [read_end_fd EXCEPT ![PProc(u)] = FALSE]
  /\ UNCHANGED <<ring, write_end_fd, pipe_op, pipe_ret, accepted, delivered>>
  /\ UNCHANGED OtherThanPipe

NextPipe ==
  \E u \in PThreads :
    \/ SysPipeRead(u)
    \/ PipeReadResume(u)
    \/ SysPipeWrite(u)
    \/ PipeWriteResume(u)
    \/ SysCloseWriteEnd(u)
    \/ SysCloseReadEnd(u)

SpecPipe == InitAll /\ [][NextPipe]_vars

(***************************************************************************)
(* Properties of the pipe                                                  *)
(***************************************************************************)
\* the bytes in the buffer, oldest first
Contents(rb) == read_bytes(rb, available_read(rb))

StreamIntact == delivered \o Contents(ring) = accepted

AtEof ==
  /\ available_read(ring) = 0
  /\ all_write_ends_closed
  /\ delivered = accepted

\* the statement as the specification words it: any read that returns 0 has
\* found the buffer empty and every write end closed, all bytes delivered
C6_AnyZeroReadIsEof ==
  /\ StreamIntact
  /\ (pipe_ret.want >= 0 /\ pipe_ret.ret = 0) => AtEof

\* C6: the bytes handed to readers followed by the bytes still buffered are
\* exactly the bytes accepted from writers, in order; a read of one or more
\* bytes returns 0 only when the buffer is empty and every write end is
\* closed, and then every accepted byte has been delivered.
C6_PipeStreamIntegrity ==
  /\ StreamIntact
  /\ (pipe_ret.want >= 1 /\ pipe_ret.ret = 0) => AtEof

\* a read of one or more bytes returned 0 after more bytes than the buffer
\* holds went through the pipe
C6_Witness ==
  /\ pipe_ret.want >= 1
  /\ pipe_ret.ret = 0
  /\ Len(delivered) > RING_BUFFER_SIZE

(***************************************************************************)
(* task/signal.rs, task/mod.rs : signals at the return to user mode        *)
(***************************************************************************)
CheckErrorNoSegv(S) ==
  IF SIGINT \in S THEN -2
  ELSE IF SIGILL \in S THEN -4
  ELSE IF SIGABRT \in S THEN -6
  ELSE IF SIGFPE \in S THEN -8
  ELSE IF SIGKILL \in S THEN -9
  ELSE 0

\* SignalFlags::check_error : the exit code of the first error signal of the
\* table that is pending, 0 for None
check_error(S) ==
  IF SIGINT \in S THEN -2
  ELSE IF SIGILL \in S THEN -4
  ELSE IF SIGABRT \in S THEN -6
  ELSE IF SIGFPE \in S THEN -8
  ELSE IF SIGKILL \in S THEN -9
  ELSE IF SIGSEGV \in S THEN -11
  ELSE 0

\* check_pending_signals takes the pending signals in ascending order and
\* returns after the first one it hands to call_user_signal_handler; the
\* signals the model raises (SIGINT, SIGILL, SIGSEGV) all go to that handler,
\* and no signal is masked (no sys_sigprocmask, handlers with an empty mask)
LowestSig(S) == CHOOSE s \in S : \A t \in S : s <= t

\* call_user_signal_handler redirects the thread to the handler and clears the
\* signal; with handler = 0 it only prints
delivers(S, handler) == S # {} /\ LowestSig(S) = SIGSEGV /\ handler

ExitKeepsPid(u, code, kids, ts, rq) ==
  LET p == ThreadProc(u) IN
    /\ proc_current' = NoTask
    /\ IF ThreadTid(u) # 0
       THEN /\ thread_state' = [ts EXCEPT ![u] = "Exited"]
            /\ proc_ready' = rq
            /\ children' = kids
            /\ UNCHANGED <<pid2process, is_zombie, exit_code, parent, halted>>
       ELSE IF getpid(p) = IDLE_PID
       THEN /\ thread_state' = [ts EXCEPT ![u] = "Exited"]
            /\ halted' = "shutdown"
            /\ proc_ready' = rq
            /\ children' = kids
            /\ UNCHANGED <<pid2process, is_zombie, exit_code, parent>>
       ELSE /\ thread_state' =
                 [v \in PTcbs |->
                    IF v = u THEN "Exited"
                    ELSE IF ThreadProc(v) = p /\ ts[v] \in {"Fresh", "Ready"}
                         THEN "Destroyed"       \* remove_inactive_task, tasks.pop()
                    ELSE ts[v]]
            /\ proc_ready' = SelectSeq(rq, LAMBDA v : ThreadProc(v) # p)
            /\ pid2process' = pid2process
            /\ is_zombie' = [is_zombie EXCEPT ![p] = TRUE]
            /\ exit_code' = [exit_code EXCEPT ![p] = code]
            /\ children' = [kids EXCEPT ![INITPROC] = kids[INITPROC] \o kids[p],
                                        ![p] = << >>]
            /\ parent' = [q \in Procs |->
                            IF q \in Range(kids[p]) THEN INITPROC ELSE parent[q]]
            /\ UNCHANGED halted

\* exit_current_and_run_next of thread u; `kids`, `ts` and `rq` are the children
\* lists, the states of the threads and the ready queue the trap has left
exit_current_and_run_next(u, code, kids, ts, rq) ==
  LET p == ThreadProc(u) IN
    /\ proc_current' = NoTask
    /\ IF ThreadTid(u) # 0
       THEN /\ thread_state' = [ts EXCEPT ![u] = "Exited"]
            /\ proc_ready' = rq
            /\ children' = kids
            /\ UNCHANGED <<pid2process, is_zombie, exit_code, parent, halted>>
       ELSE IF getpid(p) = IDLE_PID
       THEN /\ thread_state' = [ts EXCEPT ![u] = "Exited"]
            /\ halted' = "shutdown"
            /\ proc_ready' = rq
            /\ children' = kids
            /\ UNCHANGED <<pid2process, is_zombie, exit_code, parent>>
       ELSE /\ thread_state' =
                 [v \in PTcbs |->
                    IF v = u THEN "Exited"
                    ELSE IF ThreadProc(v) = p /\ ts[v] \in {"Fresh", "Ready"}
                         THEN "Destroyed"       \* remove_inactive_task, tasks.pop()
                    ELSE ts[v]]
            /\ proc_ready' = SelectSeq(rq, LAMBDA v : ThreadProc(v) # p)
            /\ pid2process' = pid2process \ {getpid(p)}
            /\ is_zombie' = [is_zombie EXCEPT ![p] = TRUE]
            /\ exit_code' = [exit_code EXCEPT ![p] = code]
            /\ children' = [kids EXCEPT ![INITPROC] = kids[INITPROC] \o kids[p],
                                        ![p] = << >>]
            /\ parent' = [q \in Procs |->
                            IF q \in Range(kids[p]) THEN INITPROC ELSE parent[q]]
            /\ UNCHANGED halted

\* trap_return : the thread runs in user mode again
trap_return(u, kids, ts, rq) ==
  /\ proc_current' = u
  /\ proc_ready' = rq
  /\ thread_state' = [ts EXCEPT ![u] = "Running"]
  /\ children' = kids
  /\ UNCHANGED <<pid2process, is_zombie, exit_code, parent, halted>>

\* the end of trap_handler: handle_signals, check_signals_error_of_current,
\* then exit_current_and_run_next or trap_return; `sigs`, `handler` and `kids`
\* are the pending signals, the SIGSEGV handlers and the children lists the
\* arm of the trap has left, `ts` the states of the threads, `rq` the ready queue
TrapTail(u, sigs, handler, kids, ts, rq) ==
  LET p == ThreadProc(u)
      d == delivers(sigs[p], handler[p])
      S == IF d THEN sigs[p] \ {SIGSEGV} ELSE sigs[p]
      errno == check_error(S) IN
    /\ signals' = [sigs EXCEPT ![p] = S]
    /\ handling_sig' = IF d THEN [handling_sig EXCEPT ![p] = SIGSEGV] ELSE handling_sig
    /\ IF errno # 0 THEN exit_current_and_run_next(u, errno, kids, ts, rq)
       ELSE trap_return(u, kids, ts, rq)

\* a thread that runs in user mode
InUserMode(u) == halted = "no" /\ proc_current = u /\ thread_state[u] = "Running"

Trap(cause, id, arg, ret, code) ==
  [cause |-> cause, id |-> id, arg |-> arg, ret |-> ret, code |-> code]

\* a system call other than sys_waitpid: the model does not record its result
OtherCall == Trap("UserEnvCall", "other", 0, 0, 0)

(***************************************************************************)
(* task/processor.rs : run_tasks switches to a thread of the ready queue   *)
(***************************************************************************)
\* fetch_task : the thread at the front of the ready queue
Fetched(u) ==
  /\ halted = "no" /\ proc_current = NoTask
  /\ proc_ready # << >> /\ Head(proc_ready) = u

\* the first dispatch of a thread goes to trap_return
DispatchFresh(u) ==
  /\ Fetched(u)
  /\ thread_state[u] = "Fresh"
  /\ proc_current' = u
  /\ proc_ready' = Tail(proc_ready)
  /\ thread_state' = [thread_state EXCEPT ![u] = "Running"]
  /\ UNCHANGED <<is_zombie, pcb_alive, exit_code, children, parent, pid2process,
                 signals, sigsegv_handler, handling_sig, file_mapped, last_trap, halted>>
  /\ UNCHANGED OtherThanProc

\* a thread suspended by the timer arm or by sys_yield goes on in trap_handler
ResumeSuspended(u) ==
  /\ Fetched(u)
  /\ thread_state[u] = "Ready"
  /\ u \in IoThreads => pipe_op[u].kind = "none"
  /\ TrapTail(u, signals, sigsegv_handler, children, thread_state, Tail(proc_ready))
  /\ UNCHANGED <<pcb_alive, sigsegv_handler, file_mapped, last_trap>>
  /\ UNCHANGED OtherThanProc

\* trap_handler, timer arm: suspend_current_and_run_next (sys_yield does the
\* same from the system call arm)
ProcSuspend(u) ==
  /\ InUserMode(u)
  /\ proc_current' = NoTask
  /\ proc_ready' = Append(proc_ready, u)
  /\ thread_state' = [thread_state EXCEPT ![u] = "Ready"]
  /\ last_trap' = Trap("SupervisorTimer", "none", 0, 0, 0)
  /\ UNCHANGED <<is_zombie, pcb_alive, exit_code, children, parent, pid2process,
                 signals, sigsegv_handler, handling_sig, file_mapped, halted>>
  /\ UNCHANGED OtherThanProc

(***************************************************************************)
(* trap/mod.rs : the fault arms of trap_handler                            *)
(***************************************************************************)
\* addresses a user store can fault on: one outside every area, and one in a
\* range recorded by a file mapping whose page is not in the page table yet
FaultAddrs == {"unmapped", "file"}

\* handle_page_fault : no valid entry in the page table, and true exactly when
\* a file mapping of the process contains the address
handle_page_fault(p, va) == va = "file" /\ file_mapped[p]

add_signal(sigs, p, sig) == [sigs EXCEPT ![p] = sigs[p] \cup {sig}]

\* the arm of the access faults: current_add_signal(SIGSEGV), then
\* handle_page_fault, and current_add_signal(SIGSEGV) again when it fails
fault_arm_signals(sigs, p, va) ==
  LET first == add_signal(sigs, p, SIGSEGV) IN
    IF handle_page_fault(p, va) THEN first ELSE add_signal(first, p, SIGSEGV)

\* initproc runs its wait loop only: it takes no fault and never calls exit
Mortal(u) == u # 0

PageFault(u) ==
  /\ InUserMode(u) /\ Mortal(u)
  /\ \E va \in FaultAddrs :
       /\ last_trap' = Trap("StorePageFault", va, 0,
                            IF handle_page_fault(ThreadProc(u), va) THEN 1 ELSE 0, 0)
       /\ TrapTail(u, fault_arm_signals(signals, ThreadProc(u), va),
                   sigsegv_handler, children, thread_state, proc_ready)
  /\ UNCHANGED <<pcb_alive, sigsegv_handler, file_mapped>>
  /\ UNCHANGED OtherThanProc

IllegalInstruction(u) ==
  /\ InUserMode(u) /\ Mortal(u)
  /\ last_trap' = Trap("IllegalInstruction", "none", 0, 0, 0)
  /\ TrapTail(u, add_signal(signals, ThreadProc(u), SIGILL), sigsegv_handler,
              children, thread_state, proc_ready)
  /\ UNCHANGED <<pcb_alive, sigsegv_handler, file_mapped>>
  /\ UNCHANGED OtherThanProc

(***************************************************************************)
(* syscall/process.rs                                                      *)
(***************************************************************************)
ExitCodes == {0}

\* sys_exit
ProcExit(u) ==
  /\ InUserMode(u) /\ Mortal(u)
  /\ \E code \in ExitCodes :
       /\ last_trap' = OtherCall
       /\ exit_current_and_run_next(u, code, children, thread_state, proc_ready)
  /\ UNCHANGED <<pcb_alive, signals, sigsegv_handler, handling_sig, file_mapped>>
  /\ UNCHANGED OtherThanProc

KillPids == PProcs
KillSigs == {SIGINT}

\* sys_kill : -1 when the PID is not in the table or the signal is pending
kill_ret(pid, sig) ==
  IF pid \in pid2process /\ sig \notin signals[pid] THEN 0 ELSE -1

SysKill(u) ==
  /\ InUserMode(u) /\ Mortal(u)
  /\ \E pid \in KillPids, sig \in KillSigs :
       /\ last_trap' = OtherCall
       /\ TrapTail(u, IF kill_ret(pid, sig) = 0 THEN add_signal(signals, pid, sig)
                      ELSE signals,
                   sigsegv_handler, children, thread_state, proc_ready)
  /\ UNCHANGED <<pcb_alive, sigsegv_handler, file_mapped>>
  /\ UNCHANGED OtherThanProc

\* sys_sigaction(SIGSEGV, action, old_action) with a handler and an empty mask
SysSigaction(u) ==
  /\ InUserMode(u) /\ Mortal(u)
  /\ ~sigsegv_handler[ThreadProc(u)]
  /\ sigsegv_handler' = [sigsegv_handler EXCEPT ![ThreadProc(u)] = TRUE]
  /\ last_trap' = OtherCall
  /\ TrapTail(u, signals, sigsegv_handler', children, thread_state, proc_ready)
  /\ UNCHANGED <<pcb_alive, file_mapped>>
  /\ UNCHANGED OtherThanProc

\* sys_thread_create : the new thread is a thread of the caller's process
NewThreads(p) == {v \in PTcbs : ThreadProc(v) = p /\ thread_state[v] = "NoTcb"}

ProcThreadCreate(u) ==
  /\ InUserMode(u)
  /\ NewThreads(ThreadProc(u)) # {}
  /\ LET v == CHOOSE w \in NewThreads(ThreadProc(u)) :
                \A x \in NewThreads(ThreadProc(u)) : w <= x IN
       /\ last_trap' = OtherCall
       /\ TrapTail(u, signals, sigsegv_handler, children,
                   [thread_state EXCEPT ![v] = "Fresh"], Append(proc_ready, v))
  /\ UNCHANGED <<pcb_alive, sigsegv_handler, file_mapped>>
  /\ UNCHANGED OtherThanProc

\* sys_waitpid : the pid argument, -1 for any child
WaitPids == {-1} \cup {getpid(p) : p \in PProcs}

matches(pid, c) == pid = -1 \/ pid = getpid(c)

\* the children of the list that are zombies and match pid, by position
zombie_idx(kids, pid) ==
  {i \in 1 .. Len(kids) : is_zombie[kids[i]] /\ matches(pid, kids[i])}

\* Arc::strong_count of the PCB of c: the children lists and the PID table
\* that hold it, the static INITPROC, and the `process` every sys_read and
\* sys_write in progress keeps on the kernel stack of its thread
strong_count(c) ==
  Cardinality({q \in Procs : c \in Range(children[q])})
    + (IF getpid(c) \in pid2process THEN 1 ELSE 0)
    + (IF c = INITPROC THEN 1 ELSE 0)
    + Cardinality({v \in IoThreads : ThreadProc(v) = c /\ pipe_op[v].kind # "none"})

KeepFd(fd, c) == fd

\* the drop of a PCB drops its fd table: the table no longer holds the end
drop_fd(fd, c) == [fd EXCEPT ![c] = FALSE]

sys_waitpid(u, pid) ==
  /\ InUserMode(u)
  /\   LET p == ThreadProc(u)
           kids == children[p]
           Z == zombie_idx(kids, pid) IN
         IF ~ \E i \in 1 .. Len(kids) : matches(pid, kids[i])
         THEN /\ last_trap' = Trap("UserEnvCall", "waitpid", pid, -1, 0)
              /\ TrapTail(u, signals, sigsegv_handler, children, thread_state, proc_ready)
              /\ UNCHANGED <<pcb_alive, pipeVars>>
         ELSE IF Z = {}
         THEN /\ last_trap' = Trap("UserEnvCall", "waitpid", pid, -2, 0)
              /\ TrapTail(u, signals, sigsegv_handler, children, thread_state, proc_ready)
              /\ UNCHANGED <<pcb_alive, pipeVars>>
         ELSE LET i == CHOOSE j \in Z : \A k \in Z : j <= k
                  c == kids[i]
                  kids2 == [children EXCEPT ![p] = RemoveAt(kids, i)] IN
                IF strong_count(c) # 1
                THEN \* assert_eq!(Arc::strong_count(&child), 1) fails
                     /\ halted' = "panic"
                     /\ children' = kids2
                     /\ last_trap' = Trap("UserEnvCall", "waitpid", pid, 0, 0)
                     /\ UNCHANGED <<proc_current, proc_ready, thread_state, is_zombie, pcb_alive,
                                    exit_code, parent, pid2process, signals,
                                    handling_sig, pipeVars>>
                ELSE /\ last_trap' = Trap("UserEnvCall", "waitpid", pid, getpid(c),
                                          exit_code[c])
                     \* `child` goes out of scope: the PCB and its fd table drop
                     /\ pcb_alive' = [pcb_alive EXCEPT ![c] = FALSE]
                     /\ write_end_fd' = drop_fd(write_end_fd, c)
                     /\ read_end_fd' = drop_fd(read_end_fd, c)
                     /\ TrapTail(u, signals, sigsegv_handler, kids2, thread_state, proc_ready)
                     /\ UNCHANGED <<ring, pipe_op, pipe_ret, accepted, delivered>>
  /\ UNCHANGED <<sigsegv_handler, file_mapped>>
  /\ UNCHANGED OtherThanProcPipe

SysWaitpid(u) == \E pid \in WaitPids : sys_waitpid(u, pid)

(***************************************************************************)
(* syscall/fs.rs : sys_read, sys_write and sys_close on the ends of the    *)
(* pipe, by the threads of the processes                                   *)
(***************************************************************************)
\* the thread is suspended inside Pipe::read or Pipe::write
suspended_in_io(u, rq) ==
  /\ proc_current' = NoTask
  /\ proc_ready' = Append(rq, u)
  /\ thread_state' = [thread_state EXCEPT ![u] = "Ready"]
  /\ UNCHANGED <<is_zombie, exit_code, children, parent, pid2process, signals,
                 handling_sig, halted>>

ProcRead(u) ==
  /\ InUserMode(u) /\ u \in IoThreads
  /\ read_end_fd[ThreadProc(u)]
  /\ ReadPass(u, PingLen, 0)
  /\ last_trap' = OtherCall
  /\ IF read_pass_outcome(ring, PingLen, 0, all_write_ends_closed) = "return"
     THEN TrapTail(u, signals, sigsegv_handler, children, thread_state, proc_ready)
     ELSE suspended_in_io(u, proc_ready)
  /\ UNCHANGED <<pcb_alive, sigsegv_handler, file_mapped>>
  /\ UNCHANGED OtherThanProcPipe

\* the reader is switched in again inside the loop of Pipe::read
ResumeRead(u) ==
  /\ Fetched(u)
  /\ u \in IoThreads
  /\ thread_state[u] = "Ready"
  /\ pipe_op[u].kind = "read"
  /\ ReadPass(u, pipe_op[u].want, pipe_op[u].already)
  /\ IF read_pass_outcome(ring, pipe_op[u].want, pipe_op[u].already,
                          all_write_ends_closed) = "return"
     THEN TrapTail(u, signals, sigsegv_handler, children, thread_state,
                   Tail(proc_ready))
     ELSE suspended_in_io(u, Tail(proc_ready))
  /\ UNCHANGED <<pcb_alive, sigsegv_handler, file_mapped, last_trap>>
  /\ UNCHANGED OtherThanProcPipe

\* the bytes written fit into the ring buffer, so Pipe::write never yields
ProcWrite(u) ==
  /\ InUserMode(u) /\ u \in IoThreads
  /\ write_end_fd[ThreadProc(u)]
  /\ Len(accepted) + PingLen <= MaxProcBytes
  /\ write_pass_outcome(ring, PingLen, 0) = "return"
  /\ WritePass(u, PingLen, 0)
  /\ last_trap' = OtherCall
  /\ TrapTail(u, signals, sigsegv_handler, children, thread_state, proc_ready)
  /\ UNCHANGED <<pcb_alive, sigsegv_handler, file_mapped>>
  /\ UNCHANGED OtherThanProcPipe

ProcCloseWrite(u) ==
  /\ InUserMode(u) /\ u \in IoThreads
  /\ write_end_fd[ThreadProc(u)]
  /\ write_end_fd' = [write_end_fd EXCEPT ![ThreadProc(u)] = FALSE]
  /\ last_trap' = OtherCall
  /\ TrapTail(u, signals, sigsegv_handler, children, thread_state, proc_ready)
  /\ UNCHANGED <<ring, read_end_fd, pipe_op, pipe_ret, accepted, delivered>>
  /\ UNCHANGED <<pcb_alive, sigsegv_handler, file_mapped>>
  /\ UNCHANGED OtherThanProcPipe

ProcCloseRead(u) ==
  /\ InUserMode(u) /\ u \in IoThreads
  /\ read_end_fd[ThreadProc(u)]
  /\ read_end_fd' = [read_end_fd EXCEPT ![ThreadProc(u)] = FALSE]
  /\ last_trap' = OtherCall
  /\ TrapTail(u, signals, sigsegv_handler, children, thread_state, proc_ready)
  /\ UNCHANGED <<ring, write_end_fd, pipe_op, pipe_ret, accepted, delivered>>
  /\ UNCHANGED <<pcb_alive, sigsegv_handler, file_mapped>>
  /\ UNCHANGED OtherThanProcPipe

\* The processes fork no further and write nothing to the pipe: a thread that
\* reads the pipe stays suspended inside sys_read.
NextProc ==
  \E u \in PTcbs :
    \/ DispatchFresh(u)
    \/ ResumeSuspended(u)
    \/ ResumeRead(u)
    \/ ProcSuspend(u)
    \/ PageFault(u)
    \/ IllegalInstruction(u)
    \/ ProcExit(u)
    \/ SysKill(u)
    \/ SysSigaction(u)
    \/ ProcThreadCreate(u)
    \/ SysWaitpid(u)
    \/ ProcRead(u)

SpecProc == InitAll /\ [][NextProc]_vars

(***************************************************************************)
(* spec.md E2: the parent (process 1) closes its read end, writes "ping"   *)
(* and exits; the child (process 2) closes its write end, reads until a    *)
(* read returns 0 and exits; initproc, the parent of process 1, waits for  *)
(* any child in a loop.                                                    *)
(***************************************************************************)
ChildSawEof == pipe_ret.want >= 1 /\ pipe_ret.ret = 0

PingParentStep ==
  \/ read_end_fd[1] /\ ProcCloseRead(1)
  \/ ~read_end_fd[1] /\ accepted = << >> /\ ProcWrite(1)
  \/ Len(accepted) = PingLen /\ ProcExit(1)

PingChildStep ==
  \/ write_end_fd[2] /\ ProcCloseWrite(2)
  \/ ~write_end_fd[2] /\ ~ChildSawEof /\ ProcRead(2)
  \/ ChildSawEof /\ ProcExit(2)

PingInitStep == sys_waitpid(0, -1)

PingDispatch(u) == DispatchFresh(u) \/ ResumeSuspended(u) \/ ResumeRead(u)

NextPing ==
  \/ \E u \in PTcbs : PingDispatch(u)
  \/ \E u \in PTcbs : ProcSuspend(u)
  \/ PingParentStep
  \/ PingChildStep
  \/ PingInitStep

\* run_tasks fetches the front of the ready queue whenever no thread runs; the
\* timer fires every 10 ms, so a thread that stays in user mode is preempted,
\* and a thread that is dispatched again and again executes its next system
\* call.
SpecPing ==
  /\ InitAll
  /\ [][NextPing]_vars
  /\ WF_vars(\E u \in PTcbs : PingDispatch(u))
  /\ \A u \in PTcbs : WF_vars(ProcSuspend(u))
  /\ SF_vars(PingParentStep)
  /\ SF_vars(PingChildStep)
  /\ SF_vars(PingInitStep)

PingDone ==
  /\ Len(accepted) = PingLen
  /\ delivered = accepted
  /\ pipe_ret = [want |-> PingLen, ret |-> 0]
  /\ is_zombie[1] /\ exit_code[1] = 0
  /\ is_zombie[2] /\ exit_code[2] = 0

\* C7: in the scenario of the pipe the child receives the 4 bytes the parent
\* wrote and nothing else, a later read of the child returns 0, and both
\* processes exit with code 0; the kernel does not stop on the way.
C7_PingScenario ==
  /\ <>PingDone
  /\ [](Len(delivered) <= Len(accepted) /\ delivered = SubSeq(accepted, 1, Len(delivered)))
  /\ [](Len(accepted) <= PingLen)
  /\ [](halted = "no")

\* both have exited with 0 after the child read "ping" and then 0, and the
\* parent has been reaped
C7_Witness == PingDone /\ ~pcb_alive[1]

(***************************************************************************)
(* Properties of sys_waitpid                                               *)
(***************************************************************************)
\* the step is a sys_waitpid of thread u
IsWaitpid(u) == InUserMode(u) /\ last_trap'.id = "waitpid"

\* the children list the system call leaves to the caller's process; when the
\* caller is killed by a signal on the way back to user mode, its children are
\* at the end of the list of initproc
ChildrenLeft(p) ==
  IF is_zombie'[p] /\ ~is_zombie[p]
  THEN SubSeq(children'[INITPROC], Len(children[INITPROC]) + 1, Len(children'[INITPROC]))
  ELSE children'[p]

\* the values sys_waitpid returns and the child it removes
WaitpidReturns(u) ==
  LET p == ThreadProc(u)
      pid == last_trap'.arg
      kids == children[p]
      M == {i \in 1 .. Len(kids) : matches(pid, kids[i])}
      Z == {i \in M : is_zombie[kids[i]]} IN
    /\ last_trap'.ret = -1 <=> M = {}
    /\ last_trap'.ret = -2 <=> (M # {} /\ Z = {})
    /\ Z = {} => ChildrenLeft(p) = kids
    /\ Z # {} => \E i \in Z : /\ last_trap'.ret = getpid(kids[i])
                              /\ last_trap'.code = exit_code[kids[i]]
                              /\ ChildrenLeft(p) = RemoveAt(kids, i)
    \* a second waitpid for the PID returned finds no such child
    /\ last_trap'.ret >= 0 =>
         \A j \in 1 .. Len(ChildrenLeft(p)) : getpid(ChildrenLeft(p)[j]) # last_trap'.ret

\* C8: sys_waitpid(pid, out) returns -1 exactly when no child of the caller
\* matches pid, -2 exactly when a child matches and no matching child is a
\* zombie, and otherwise removes one matching zombie from the children list,
\* stores its exit code and returns its PID, after which no child has that PID.
C8_WaitpidContract ==
  [][\A u \in PTcbs : IsWaitpid(u) => (halted' = "no" /\ WaitpidReturns(u))]_vars

(***************************************************************************)
(* Properties of the fault arm of trap_handler                             *)
(***************************************************************************)
\* the step is a store of thread u that faults on an address in no area
IsStoreFault(u) ==
  /\ InUserMode(u)
  /\ last_trap'.cause = "StorePageFault"
  /\ last_trap'.id = "unmapped"

\* the process has its main thread only
SingleThreaded(p) ==
  \A v \in PTcbs : (ThreadProc(v) = p /\ ThreadTid(v) # 0) => thread_state[v] = "NoTcb"

\* SIGSEGV is raised and the process of u exits at this trap with code -11
KilledBySegv(u) ==
  /\ SIGSEGV \in signals'[ThreadProc(u)]
  /\ thread_state'[u] = "Exited"
  /\ proc_current' = NoTask
  /\ is_zombie'[ThreadProc(u)]
  /\ exit_code'[ThreadProc(u)] = -11

\* the step is the parent's sys_waitpid for child c, a zombie killed by SIGSEGV
ReapsSegv(u, c) ==
  /\ IsWaitpid(u)
  /\ last_trap'.arg = getpid(c)
  /\ c \in Range(children[ThreadProc(u)])
  /\ is_zombie[c]
  /\ SIGSEGV \in signals[c]
  /\ check_error(signals[c]) = -11

InitFault ==
  /\ InitSync
  /\ InitPipe
  /\ InitRest
  /\ \E m \in BOOLEAN : InitProcWith([p \in Procs |-> m /\ p = 1])

SpecFault == InitFault /\ [][NextProc]_vars

\* the step is a fault of thread u that handle_page_fault resolves
IsResolvedFault(u) ==
  /\ InUserMode(u)
  /\ last_trap'.cause = "StorePageFault"
  /\ last_trap'.ret = 1

MappedFileSize == 2 * PAGE_SIZE
FileData(offset) == ElfData + 1 + offset \div PAGE_SIZE

\* a FileMapping with the one range sys_mmap(fd, len, 0) records for the first
\* mapping of a process: [offset, offset + len) of the file at MMAP_AREA_BASE
OneFileMapping ==
  [ranges |-> <<[offset |-> 0, len |-> MappedFileSize, start |-> MMAP_AREA_BASE_VPN,
                 perm |-> {"R", "W"}]>>,
   frames |-> << >>, map |-> << >>, dirty_parts |-> {}]

\* MapRange::contains for the address `off` bytes into page vpn (the start of
\* a range is page aligned: VirtualAddressAllocator::alloc)
range_contains(r, vpn, off) ==
  vpn >= r.start /\ (vpn - r.start) * PAGE_SIZE + off < r.len

\* MapRange::file_offset
file_offset(r, vpn) == r.offset + (vpn - r.start) * PAGE_SIZE

\* FileMapping::contains
mapping_contains(m, vpn, off) ==
  \E j \in 1 .. Len(m.ranges) : range_contains(m.ranges[j], vpn, off)

\* handle_page_fault with FileMapping::map : [c, fms, result]
handle_file_fault(C, fms, vpn, off) ==
  LET I == {i \in 1 .. Len(fms) : mapping_contains(fms[i], vpn, off)} IN
    IF find_pte_some(C.page_table, vpn) /\ pte_valid(C.page_table, vpn)
    THEN [c |-> C, fms |-> fms, result |-> FALSE]
    ELSE IF I = {} THEN [c |-> C, fms |-> fms, result |-> FALSE]
    ELSE LET i == CHOOSE k \in I : \A j \in I : k <= j
             m == fms[i]
             R == {j \in 1 .. Len(m.ranges) : range_contains(m.ranges[j], vpn, off)}
             r == m.ranges[CHOOSE k \in R : \A j \in R : k <= j]
             offset == file_offset(r, vpn)
             shared == offset \in DOMAIN m.map
             a == IF shared THEN [some |-> TRUE, ppn |-> m.map[offset], c |-> C]
                  ELSE frame_alloc_unwrap(C) IN
           IF ~a.some THEN [c |-> a.c, fms |-> fms, result |-> FALSE]
           ELSE LET m2 == [m EXCEPT
                             !.frames = IF shared THEN @ ELSE Append(@, a.ppn),
                             !.map = IF shared THEN @ ELSE (offset :> a.ppn) @@ @,
                             !.dirty_parts = IF "W" \in r.perm THEN @ \cup {offset} ELSE @]
                    \* the update of the page table is commented out in the
                    \* source (trap/mod.rs line 191)
                    c2 == IF shared THEN a.c
                          ELSE IF ~(offset < MappedFileSize) THEN [a.c EXCEPT !.panic = TRUE]
                          ELSE [a.c EXCEPT !.data[a.ppn] = FileData(offset)] IN
                  [c |-> c2, fms |-> [fms EXCEPT ![i] = m2], result |-> TRUE]

(***************************************************************************)
(* The operations on the address spaces of two processes                   *)
(***************************************************************************)
\* the record of the last operation: n counts the operations of the run
MemOp(op, m, arg, ret) ==
  [op |-> op, proc |-> m, arg |-> arg, ret |-> ret, n |-> mem_last.n + 1]

\* the context an operation leaves becomes the state of process m
Commit(m, c) ==
  /\ frame_allocator' = c.fa
  /\ frame_data' = c.data
  /\ memory_set' = [memory_set EXCEPT ![m] = [alive |-> TRUE, page_table |-> c.page_table,
                                              areas |-> c.areas]]
  /\ mem_panic' = c.panic

MemRuns(m) == ~mem_panic /\ memory_set[m].alive /\ mem_last.n < MaxMemOps

\* sizes passed to sys_sbrk: the ones of user/src/bin/sbrk_test.rs
SbrkSizes == {0, PAGE_SIZE, 10 * PAGE_SIZE, -11 * PAGE_SIZE, -PAGE_SIZE}

\* sys_sbrk, ProcessControlBlock::change_program_brk
MemSbrk(m) ==
  /\ MemRuns(m)
  /\ \E size \in SbrkSizes :
       LET old_break == heap[m].program_brk
           new_brk == old_break + size IN
         /\ new_brk <= heap[m].heap_bottom + MaxHeapPages * PAGE_SIZE
         /\ IF new_brk < heap[m].heap_bottom
            THEN /\ mem_last' = MemOp("sbrk", m, size, -1)
                 /\ UNCHANGED <<frame_allocator, frame_data, memory_set, heap, mem_panic>>
            ELSE \E r \in {IF size < 0
                            THEN MemorySet_shrink_to(Ctx(m), heap[m].heap_bottom, new_brk)
                            ELSE MemorySet_append_to(Ctx(m), heap[m].heap_bottom, new_brk)} :
                   /\ Commit(m, r.c)
                   /\ heap' = IF r.result /\ ~r.c.panic
                              THEN [heap EXCEPT ![m].program_brk = new_brk] ELSE heap
                   /\ mem_last' = MemOp("sbrk", m, size, IF r.result THEN old_break ELSE -1)
  /\ UNCHANGED <<file_mappings, user_res>>
  /\ UNCHANGED OtherThanMem

\* sys_thread_create : TaskUserRes::new with alloc_user_res = true; the
\* allocator of tids gives 1 to the second thread
MemThreadCreate(m) ==
  /\ MemRuns(m)
  /\ 1 \notin user_res[m].tids
  /\ \E c \in {alloc_user_res(Ctx(m), heap[m].heap_bottom, 1)} : Commit(m, c)
  /\ user_res' = [user_res EXCEPT ![m] = [tids |-> @.tids \cup {1}, tasks_len |-> 2]]
  /\ mem_last' = MemOp("thread_create", m, 0, 1)
  /\ UNCHANGED <<heap, file_mappings>>
  /\ UNCHANGED OtherThanMem

\* exit_current_and_run_next of the second thread: task_inner.res = None drops
\* its TaskUserRes
MemThreadExit(m) ==
  /\ MemRuns(m)
  /\ 1 \in user_res[m].tids
  /\ \E c \in {dealloc_user_res(Ctx(m), heap[m].heap_bottom, 1)} : Commit(m, c)
  /\ user_res' = [user_res EXCEPT ![m].tids = @ \ {1}]
  /\ mem_last' = MemOp("thread_exit", m, 0, 0)
  /\ UNCHANGED <<heap, file_mappings>>
  /\ UNCHANGED OtherThanMem

\* sys_fork of process 1, ProcessControlBlock::fork : the child is process 2
MemFork ==
  /\ MemRuns(1) /\ memory_set[2] = NoMemorySet
  /\ IF user_res[1].tasks_len # 1
     THEN \* assert_eq!(parent.thread_count(), 1) fails
          /\ mem_panic' = TRUE
          /\ mem_last' = MemOp("fork", 1, 0, -1)
          /\ UNCHANGED <<frame_allocator, frame_data, memory_set, heap, user_res>>
     ELSE /\ \E c \in {from_existed_user(NewCtx(frame_allocator, frame_data), memory_set[1])} :
               Commit(2, c)
          /\ heap' = [heap EXCEPT ![2] = heap[1]]
          /\ user_res' = [user_res EXCEPT ![2] = [tids |-> {0}, tasks_len |-> 1]]
          /\ mem_last' = MemOp("fork", 1, 0, 2)
  /\ UNCHANGED file_mappings
  /\ UNCHANGED OtherThanMem

\* the pages a user store can hit without a fault: valid, writable, user
WritablePages(ms) ==
  {v \in DOMAIN ms.page_table.pte : {"W", "U"} \subseteq ms.page_table.pte[v].flags}

UserWritable(m) == WritablePages(memory_set[m])

\* the pages the stores of the model go to: the page of the program, the page
\* at the bottom of the heap and the one above it; and the value they store
StoreVpns == {ElfStartVpn, ustack_base_of_elf \div PAGE_SIZE, ustack_base_of_elf \div PAGE_SIZE + 1}
StoreValue == ElfData + 2

\* a store of a thread of process m into one of its pages
MemUserStore(m) ==
  /\ MemRuns(m)
  /\ \E v \in UserWritable(m) \cap StoreVpns :
       /\ frame_data' = [frame_data EXCEPT ![memory_set[m].page_table.pte[v].ppn] = StoreValue]
       /\ mem_last' = MemOp("store", m, v, StoreValue)
  /\ UNCHANGED <<frame_allocator, memory_set, heap, file_mappings, user_res, mem_panic>>
  /\ UNCHANGED OtherThanMem

\* pages of the mmap area a user access can fault on
FaultVpns == {MMAP_AREA_BASE_VPN, MMAP_AREA_BASE_VPN + 1}

\* the access fault arm of trap_handler on an address of the mmap area:
\* handle_page_fault
MemPageFault(m) ==
  /\ MemRuns(m)
  /\ \E v \in FaultVpns :
       \E r \in {handle_file_fault(Ctx(m), file_mappings[m], v, 0)} :
         /\ Commit(m, r.c)
         /\ file_mappings' = [file_mappings EXCEPT ![m] = r.fms]
         /\ mem_last' = MemOp("page_fault", m, v, IF r.result THEN 1 ELSE 0)
  /\ UNCHANGED <<heap, user_res>>
  /\ UNCHANGED OtherThanMem

NextMem ==
  \/ \E m \in MemProcs : MemSbrk(m)
  \/ \E m \in MemProcs : MemThreadCreate(m)
  \/ \E m \in MemProcs : MemThreadExit(m)
  \/ MemFork
  \/ \E m \in MemProcs : MemUserStore(m)
  \/ \E m \in MemProcs : MemPageFault(m)

SpecMem == InitAll /\ [][NextMem]_vars

\* The operations with a file mapping in place.  sys_mmap is the only code that
\* records a mapping and returns -1 before it does (see InitFault); the mapping
\* is the input of handle_page_fault here.
InitMemFault ==
  /\ InitSync /\ InitPipe /\ InitProc
  /\ InitMemWith(<<OneFileMapping>>)
  /\ InitSig /\ InitFd /\ InitBitmap /\ InitEfs /\ InitCondvar

SpecMemFault == InitMemFault /\ [][NextMem]_vars

(***************************************************************************)
(* C11 : a page fault inside a mmap range maps the page                    *)
(***************************************************************************)
\* the frame a file mapping of process m records for the page v, NoFrame when
\* there is none
RecordedFrame(m, v) ==
  LET fms == file_mappings[m]
      I == {i \in 1 .. Len(fms) : mapping_contains(fms[i], v, 0)} IN
    IF I = {} THEN NoFrame
    ELSE LET fm == fms[CHOOSE k \in I : \A j \in I : k <= j]
             r == fm.ranges[CHOOSE j \in 1 .. Len(fm.ranges) : range_contains(fm.ranges[j], v, 0)] IN
           IF file_offset(r, v) \in DOMAIN fm.map THEN fm.map[file_offset(r, v)] ELSE NoFrame

PendingIgnoringMask(P, s) == s \in P.signals

\* check_pending_signals : the signal is pending and the mask of the process
\* does not hold it
pending_unmasked(P, s) == s \in P.signals /\ s \notin P.signal_mask

\* check_pending_signals : the handler that runs masks the signal
masked_by_handler(P, s) ==
  P.handling_sig # -1 /\ s \in P.signal_actions[P.handling_sig].mask

\* call_kernel_signal_handler
call_kernel_signal_handler(P, s) ==
  IF s = SIGSTOP THEN [P EXCEPT !.frozen = TRUE, !.signals = @ \ {SIGSTOP}]
  ELSE IF s = SIGCONT
  THEN (IF SIGCONT \in P.signals
        THEN [P EXCEPT !.signals = @ \ {SIGCONT}, !.frozen = FALSE] ELSE P)
  ELSE [P EXCEPT !.killed = TRUE]

\* The trap context of the model holds sepc, and a0 in the scenarios that
\* follow the registers; trap_ctx.sepc = handler, trap_ctx.x[10] = sig
Redirected(cx, handler, sig) ==
  [r \in DOMAIN cx |-> IF r = "sepc" THEN handler ELSE IF r = "a0" THEN sig ELSE cx[r]]

\* cx.x[10] = result
WithResult(cx, ret) == [r \in DOMAIN cx |-> IF r = "a0" THEN ret ELSE cx[r]]

\* the scenarios that follow the deliveries keep, for every handler that has
\* not ended, the trap context its delivery saved (not a field of the kernel)
DeliveryNoted(P) ==
  IF "frames" \in DOMAIN P THEN [P EXCEPT !.frames = Append(@, P.trap_cx)] ELSE P

HandlerEnded(P) ==
  IF "frames" \in DOMAIN P /\ Len(P.frames) > 0
  THEN [P EXCEPT !.frames = SubSeq(@, 1, Len(@) - 1)] ELSE P

\* call_user_signal_handler : with a handler, the signal is taken from the
\* pending ones, the trap context is saved and redirected to the handler
call_user_signal_handler(P, s) ==
  IF P.signal_actions[s].handler # 0
  THEN [DeliveryNoted(P) EXCEPT
                 !.handling_sig = s,
                 !.signals = @ \ {s},
                 !.trap_ctx_backup = <<P.trap_cx>>,
                 !.trap_cx = Redirected(P.trap_cx, P.signal_actions[s].handler, s),
                 !.last.delivered = s]
  ELSE P

\* check_pending_signals, from signal s on
RECURSIVE check_pending_signals(_, _)
check_pending_signals(P, s) ==
  IF s > MAX_SIG THEN P
  ELSE IF pending_unmasked(P, s) /\ ~masked_by_handler(P, s)
  THEN IF s \in {SIGKILL, SIGSTOP, SIGCONT, SIGDEF}
       THEN Bind([call_kernel_signal_handler(P, s) EXCEPT !.last.kernel = @ \cup {s}],
                 LAMBDA Q : check_pending_signals(Q, s + 1))
       ELSE call_user_signal_handler(P, s)
  ELSE check_pending_signals(P, s + 1)

\* the end of trap_handler for the thread of the process: one round of
\* handle_signals; a frozen process that is not killed suspends and stays in
\* the loop; otherwise check_signals_error_of_current, then
\* exit_current_and_run_next or trap_return
SigTail(P) ==
  \E Q \in {check_pending_signals(P, 0)} :
    sigp' = IF Q.frozen /\ ~Q.killed THEN [Q EXCEPT !.where = "frozen"]
           ELSE IF check_error(Q.signals) # 0
           THEN [Q EXCEPT !.where = "exited", !.exit_code = check_error(Q.signals)]
           ELSE [Q EXCEPT !.where = "user"]

\* the system call `op` of the thread has set the fields to P and returns ret
SigTrap(P, op, ret) ==
  SigTail([P EXCEPT !.last = SigLast(op, ret), !.trap_cx = WithResult(@, ret)])

\* the signals the model sends, the ones a mask can hold, and the masks of the
\* handlers it installs
SendSigs == {SIGINT, SIGKILL, SIGUSR1, SIGCONT, SIGSTOP}
MaskSigs == {SIGINT, SIGUSR1}
ActionSigs == {SIGINT, SIGKILL, SIGUSR1}
ActionMasks == {{}, {SIGINT, SIGUSR1}}

SigInUser == sigp.where = "user"

\* sys_kill on the own PID, with a signal of S
sys_kill_self(S) ==
  /\ SigInUser
  /\ \E s \in S :
       IF s \in sigp.signals THEN SigTrap(sigp, "kill", -1)
       ELSE SigTrap([sigp EXCEPT !.signals = @ \cup {s}], "kill", 0)
  /\ UNCHANGED OtherThanSig

SigKillSelf == sys_kill_self(SendSigs)

\* sys_kill of another process on the PID of this one, while its thread is
\* ready: nothing but the pending signals changes
sys_kill_other(S) ==
  /\ sigp.where \in {"user", "frozen"}
  /\ \E s \in S :
       /\ s \notin sigp.signals
       /\ sigp' = [sigp EXCEPT !.signals = @ \cup {s},
                             !.last = SigLast("kill_other", 0)]
  /\ UNCHANGED OtherThanSig

SigKillOther == sys_kill_other(SendSigs)

\* the thread of a frozen process runs again: the next round of handle_signals
SigFrozenResume ==
  /\ sigp.where = "frozen"
  /\ SigTail([sigp EXCEPT !.last = SigLast("resume", 0)])
  /\ UNCHANGED OtherThanSig

\* SignalFlags::bits
RECURSIVE bits(_)
bits(S) ==
  IF S = {} THEN 0
  ELSE LET s == CHOOSE x \in S : TRUE IN 2 ^ s + bits(S \ {s})

\* sys_sigprocmask with a mask over M: every mask of the model is a set of flags
sys_sigprocmask(M) ==
  /\ SigInUser
  /\ \E mask \in SUBSET M :
       SigTrap([sigp EXCEPT !.signal_mask = mask], "sigprocmask", bits(sigp.signal_mask))
  /\ UNCHANGED OtherThanSig

SigProcmask == sys_sigprocmask(MaskSigs)

\* sys_sigaction with valid pointers, for a signal of S and a mask of Ms
sys_sigaction(S, Ms) ==
  /\ SigInUser
  /\ \E s \in S, m \in Ms :
       IF s = SIGKILL \/ s = SIGSTOP THEN SigTrap(sigp, "sigaction", -1)
       ELSE SigTrap([sigp EXCEPT !.signal_actions[s] = [handler |-> HandlerPc(s), mask |-> m]],
                    "sigaction", 0)
  /\ UNCHANGED OtherThanSig

SigAction == sys_sigaction(ActionSigs, ActionMasks)

\* sys_sigreturn : trap_ctx_backup.unwrap()
SigReturn ==
  /\ SigInUser
  /\ IF sigp.trap_ctx_backup = << >>
     THEN sigp' = [sigp EXCEPT !.where = "panic",
                               !.last = SigLast("sigreturn", 0)]
     ELSE \* the value returned is a0 of the context restored
          SigTrap([HandlerEnded(sigp) EXCEPT !.handling_sig = -1,
                                             !.trap_cx = sigp.trap_ctx_backup[1]],
                  "sigreturn",
                  IF "a0" \in DOMAIN sigp.trap_cx THEN sigp.trap_ctx_backup[1].a0 ELSE 0)
  /\ UNCHANGED OtherThanSig

\* a timer interrupt, or a system call that touches no signal field
SigOtherTrap ==
  /\ SigInUser
  /\ SigTail([sigp EXCEPT !.last = SigLast("other", 0)])
  /\ UNCHANGED OtherThanSig

NextSig ==
  \/ SigKillSelf
  \/ SigKillOther
  \/ SigFrozenResume
  \/ SigProcmask
  \/ SigAction
  \/ SigReturn
  \/ SigOtherTrap

SpecSig == InitAll /\ [][NextSig]_vars

(***************************************************************************)
(* C12 : a signal in signal_mask is not delivered                          *)
(***************************************************************************)
\* C12: no step delivers a signal that the signal mask holds at the return to
\* user mode to its user handler, and such a signal stays pending if it was
\* pending; so a delivery of s needs a sys_sigprocmask that has taken s out of
\* the mask
C12_MaskedSignalNotDelivered ==
  [][\A s \in sigp'.signal_mask :
       /\ sigp'.last.delivered # s
       /\ (s \in sigp.signals => s \in sigp'.signals)]_vars

\* the thread has returned to its program from a trap while SIGUSR1 was
\* pending, masked, and had a handler that nothing else kept from running
C12_Witness ==
  /\ sigp.where = "user" /\ sigp.last.op = "other"
  /\ SIGUSR1 \in sigp.signals /\ SIGUSR1 \in sigp.signal_mask
  /\ sigp.signal_actions[SIGUSR1].handler # 0
  /\ sigp.handling_sig = -1
  /\ sigp.trap_cx.sepc = MainPc

(***************************************************************************)
(* C13 : from_existed_user copies the address space                        *)
(***************************************************************************)
\* the pages of the areas of an address space
AreaVpns(ms) ==
  UNION {ms.areas[i].start .. (ms.areas[i].end - 1) : i \in 1 .. Len(ms.areas)}

\* M2 is a copy of M1: the same pages with the same permissions, in frames
\* that are not frames of M1, with the same contents in `data`
IsCopy(M1, M2, data) ==
  /\ AreaVpns(M2) = AreaVpns(M1)
  /\ DOMAIN M2.page_table.pte = AreaVpns(M1) \cup {TRAMPOLINE_VPN}
  /\ AreaVpns(M1) \subseteq DOMAIN M1.page_table.pte
  /\ \A v \in AreaVpns(M1) :
       /\ M2.page_table.pte[v].flags = M1.page_table.pte[v].flags
       /\ \A w \in DOMAIN M1.page_table.pte :
            M2.page_table.pte[v].ppn # M1.page_table.pte[w].ppn
       /\ M2.page_table.pte[v].ppn \notin Range(M1.page_table.frames)
       /\ data[M2.page_table.pte[v].ppn] = data[M1.page_table.pte[v].ppn]

\* what process m reads in its pages
ViewOf(ms, data) ==
  [v \in DOMAIN ms.page_table.pte \ {TRAMPOLINE_VPN} |-> data[ms.page_table.pte[v].ppn]]

\* C13: the address space from_existed_user(M) yields in fork maps the pages of
\* the areas of M with the same permissions, in frames of its own with the
\* contents of M's at the time of the copy; and a later store through one of
\* the two address spaces changes nothing the other one reads
C13_ForkCopiesAndIsolates ==
  [][/\ (mem_last'.op = "fork" /\ mem_last'.ret = 2 /\ ~mem_panic')
          => IsCopy(memory_set'[1], memory_set'[2], frame_data')
     /\ (mem_last'.op = "store" /\ mem_last'.n # mem_last.n /\ memory_set[2].alive)
          => \A m \in MemProcs \ {mem_last'.proc} :
               ViewOf(memory_set'[m], frame_data') = ViewOf(memory_set[m], frame_data)]_vars

\* after a fork, one of the two processes has stored into a page of the
\* program, and the other one still reads what the page held
C13_Witness ==
  /\ mem_last.op = "store" /\ mem_last.arg = ElfStartVpn
  /\ memory_set[2].alive /\ ~mem_panic
  /\ \E m \in MemProcs \ {mem_last.proc} :
       /\ ElfStartVpn \in DOMAIN memory_set[m].page_table.pte
       /\ ViewOf(memory_set[m], frame_data)[ElfStartVpn] = ElfData
       /\ ViewOf(memory_set[mem_last.proc], frame_data)[ElfStartVpn] = StoreValue

(***************************************************************************)
(* C14 : the contract of sys_sbrk                                          *)
(***************************************************************************)
\* the pages that hold the bytes [from, to)
PagesOf(from, to) == IF from >= to THEN {} ELSE va_floor(from) .. (va_ceil(to) - 1)

\* C14: sys_sbrk(size) of a process with one thread returns the previous break
\* and moves the break by size when the new break is not below heap_bottom
\* (size 0 changes nothing, and after growth the bytes between the two breaks
\* are writable by the process); below heap_bottom it returns -1 and changes
\* neither the break nor a mapping
C14_SbrkContract ==
  [][(mem_last'.op = "sbrk" /\ mem_last'.n # mem_last.n
        /\ user_res[mem_last'.proc].tids = {0})
       => LET m == mem_last'.proc
              size == mem_last'.arg
              previous == heap[m].program_brk IN
            IF previous + size >= heap[m].heap_bottom
            THEN /\ ~mem_panic'
                 /\ mem_last'.ret = previous
                 /\ heap'[m].program_brk = previous + size
                 /\ size = 0 => memory_set' = memory_set
                 /\ size > 0 => PagesOf(previous, previous + size) \subseteq WritablePages(memory_set'[m])
            ELSE /\ mem_last'.ret = -1
                 /\ ~mem_panic'
                 /\ heap' = heap /\ memory_set' = memory_set]_vars

(***************************************************************************)
(* C15 : system calls when no frame is free                                *)
(***************************************************************************)
\* StackFrameAllocator::alloc would return None
NoFreeFrame == ~alloc(frame_allocator).some

\* the system call of the step asks the allocator for a frame before anything
\* else can fail: thread_create maps the user stack, fork of a process with one
\* thread builds a page table, sbrk maps the pages above the end of the area
NeedsFrame(op) ==
  \/ op.op = "thread_create"
  \/ op.op = "fork" /\ user_res[1].tasks_len = 1
  \/ /\ op.op = "sbrk" /\ op.arg > 0
     /\ LET ms == memory_set[op.proc]
            i == find_area(ms.areas, va_floor(heap[op.proc].heap_bottom)) IN
          i # 0 /\ va_ceil(heap[op.proc].program_brk + op.arg) > ms.areas[i].end

\* C15: a system call that needs a frame when the allocator has none returns
\* -1, the kernel keeps running, and the address spaces and breaks are as they
\* were
C15_ExhaustionReturnsError ==
  [][(mem_last'.n # mem_last.n /\ NoFreeFrame /\ NeedsFrame(mem_last'))
       => /\ ~mem_panic'
          /\ mem_last'.ret = -1
          /\ memory_set' = memory_set /\ heap' = heap]_vars

(***************************************************************************)
(* C16 : the Running thread is the current one                             *)
(***************************************************************************)
\* C16: a TCB has the status Running only while it is the current task of the
\* processor, so at most one TCB is Running; TCBs of threads that have exited
\* and are not reaped yet included
C16_RunningIsCurrent ==
  \A t \in Tcbs : task_status[t] = "Running" => current = t

(***************************************************************************)
(* C17 : the table from PIDs to processes                                  *)
(***************************************************************************)
\* the main thread of a process
MainThread(p) == CHOOSE u \in PTcbs : ThreadProc(u) = p /\ ThreadTid(u) = 0

AllocFdAtEnd(t) == [fd |-> Len(t), table |-> Append(t, "none")]

\* ProcessControlBlockInner::alloc_fd : [fd, table]
alloc_fd(t) ==
  IF \E i \in 1 .. Len(t) : t[i] = "none"
  THEN [fd |-> (CHOOSE i \in 1 .. Len(t) : t[i] = "none" /\ \A j \in 1 .. i - 1 : t[j] # "none") - 1,
        table |-> t]
  ELSE [fd |-> Len(t), table |-> Append(t, "none")]

\* the table after fd_table[fd] = Some(file)
set_fd(t, fd, file) == [t EXCEPT ![fd + 1] = file]

FdCall(op, arg, ret, ret2) == [op |-> op, arg |-> arg, ret |-> ret, ret2 |-> ret2]

\* the descriptors the calls of the model pass
FdArgs == 0 .. MaxFds

\* the table has room for n more files within the bound of the model
FdRoom(n) ==
  Len(fdt.fd_table) + n - Cardinality({i \in 1 .. Len(fdt.fd_table) : fdt.fd_table[i] = "none"})
    <= MaxFds

\* sys_open : open_file finds the file or not
FdOpen ==
  /\ FdRoom(1)
  /\ \E found \in BOOLEAN :
       IF found
       THEN LET a == alloc_fd(fdt.fd_table) IN
              fdt' = [fd_table |-> set_fd(a.table, a.fd, "inode"),
                      last |-> FdCall("open", 0, a.fd, 0)]
       ELSE fdt' = [fdt EXCEPT !.last = FdCall("open", 0, -1, 0)]
  /\ UNCHANGED OtherThanFd

\* sys_close
FdClose ==
  /\ \E fd \in FdArgs :
       IF fd >= Len(fdt.fd_table) THEN fdt' = [fdt EXCEPT !.last = FdCall("close", fd, -1, 0)]
       ELSE IF fdt.fd_table[fd + 1] = "none"
       THEN fdt' = [fdt EXCEPT !.last = FdCall("close", fd, -1, 0)]
       ELSE fdt' = [fd_table |-> set_fd(fdt.fd_table, fd, "none"),
                    last |-> FdCall("close", fd, 0, 0)]
  /\ UNCHANGED OtherThanFd

\* sys_pipe : the descriptors of the read end and of the write end go to the
\* user array (ret and ret2 of the record), the call returns 0
FdPipe ==
  /\ FdRoom(2)
  /\ LET r == alloc_fd(fdt.fd_table)
         t1 == set_fd(r.table, r.fd, "pipe_read")
         w == alloc_fd(t1) IN
       fdt' = [fd_table |-> set_fd(w.table, w.fd, "pipe_write"),
               last |-> FdCall("pipe", 0, r.fd, w.fd)]
  /\ UNCHANGED OtherThanFd

\* sys_dup
FdDup ==
  /\ FdRoom(1)
  /\ \E fd \in FdArgs :
       IF fd >= Len(fdt.fd_table) THEN fdt' = [fdt EXCEPT !.last = FdCall("dup", fd, -1, 0)]
       ELSE IF fdt.fd_table[fd + 1] = "none"
       THEN fdt' = [fdt EXCEPT !.last = FdCall("dup", fd, -1, 0)]
       ELSE LET a == alloc_fd(fdt.fd_table) IN
              fdt' = [fd_table |-> set_fd(a.table, a.fd, fdt.fd_table[fd + 1]),
                      last |-> FdCall("dup", fd, a.fd, 0)]
  /\ UNCHANGED OtherThanFd

NextFd == FdOpen \/ FdClose \/ FdPipe \/ FdDup

SpecFd == InitAll /\ [][NextFd]_vars

(***************************************************************************)
(* C18 : descriptors are the lowest free indices                           *)
(***************************************************************************)
\* the empty slots of a table, as descriptors
EmptyFds(t) == {i - 1 : i \in {j \in 1 .. Len(t) : t[j] = "none"}}

\* descriptor fd is the smallest empty one of t, or the slot after its end
\* when t has no empty slot
IsLowestFree(t, fd) ==
  IF EmptyFds(t) = {} THEN fd = Len(t)
  ELSE fd \in EmptyFds(t) /\ \A e \in EmptyFds(t) : fd <= e

\* t2 is t with `file` put into descriptor fd, one slot longer only if t had
\* no empty slot
IsTableWith(t, t2, fd, file) ==
  /\ Len(t2) = (IF EmptyFds(t) = {} THEN Len(t) + 1 ELSE Len(t))
  /\ t2[fd + 1] = file
  /\ \A i \in 1 .. Len(t) : i # fd + 1 => t2[i] = t[i]

\* C18: a descriptor that open or dup returns is the smallest index whose slot
\* is empty at the call; pipe takes the two smallest, the read end first; the
\* table grows by one slot only when no slot is empty; close and dup of a
\* descriptor out of range or empty return -1 and leave the table as it is
C18_LowestFreeDescriptor ==
  [][LET t == fdt.fd_table
         t2 == fdt'.fd_table
         c == fdt'.last IN
       /\ (fdt' # fdt /\ c.op = "open" /\ c.ret # -1)
            => IsLowestFree(t, c.ret) /\ IsTableWith(t, t2, c.ret, "inode")
       /\ (fdt' # fdt /\ c.op = "dup" /\ c.ret # -1)
            => IsLowestFree(t, c.ret) /\ IsTableWith(t, t2, c.ret, t[c.arg + 1])
       /\ (fdt' # fdt /\ c.op = "pipe")
            => /\ IsLowestFree(t, c.ret)
               /\ IsLowestFree(set_fd(IF EmptyFds(t) = {} THEN Append(t, "none") ELSE t,
                                      c.ret, "pipe_read"), c.ret2)
               /\ c.ret < c.ret2
               /\ t2[c.ret + 1] = "pipe_read" /\ t2[c.ret2 + 1] = "pipe_write"
               /\ Len(t2) <= Len(t) + 2
               /\ Len(t2) > Len(t) => Cardinality(EmptyFds(t)) < 2
               /\ \A i \in 1 .. Len(t) : i \notin {c.ret + 1, c.ret2 + 1} => t2[i] = t[i]
       /\ (c.op \in {"close", "dup"} /\ (c.arg >= Len(t) \/ t[c.arg + 1] = "none")
           /\ fdt'.last # fdt.last)
            => c.ret = -1 /\ t2 = t]_vars

\* sys_pipe has taken the two lowest free descriptors of a table with holes
\* below its end, without growing it
C18_Witness ==
  /\ fdt.last.op = "pipe" /\ fdt.last.ret = 0 /\ fdt.last.ret2 = 2
  /\ Len(fdt.fd_table) = 4 /\ fdt.fd_table[4] # "none"

(***************************************************************************)
(* C19 : the areas, the frames and the page table of a MemorySet           *)
(***************************************************************************)
\* the pages of area i
VpnsOfArea(ms, i) == ms.areas[i].start .. (ms.areas[i].end - 1)

\* the frames the allocator can hand out again
FreeFrames(fa) == Range(fa.recycled) \cup (fa.current .. (fa.end - 1))

\* every page of an area has a valid entry with the frame the area records for
\* it; an area records frames for its pages only; no frame is recorded twice;
\* no recorded frame is free
AreasMapped(ms, fa) ==
  /\ \A i \in 1 .. Len(ms.areas) :
       /\ DOMAIN ms.areas[i].data_frames = VpnsOfArea(ms, i)
       /\ \A v \in VpnsOfArea(ms, i) :
            /\ find_pte_some(ms.page_table, v) /\ pte_valid(ms.page_table, v)
            /\ ms.page_table.pte[v].ppn = ms.areas[i].data_frames[v]
            /\ ms.areas[i].data_frames[v] \notin FreeFrames(fa)
  /\ \A i, j \in 1 .. Len(ms.areas) :
       \A v \in DOMAIN ms.areas[i].data_frames, w \in DOMAIN ms.areas[j].data_frames :
         ms.areas[i].data_frames[v] = ms.areas[j].data_frames[w] => i = j /\ v = w

\* the pages ms2 has no longer in an area are unmapped in ms2, and the frames
\* they had in ms are free in fa2
RemovedUnmapped(ms, ms2, fa2) ==
  \A v \in AreaVpns(ms) \ AreaVpns(ms2) :
    /\ ~pte_valid(ms2.page_table, v)
    /\ v \in DOMAIN ms.page_table.pte => ms.page_table.pte[v].ppn \in FreeFrames(fa2)

\* C19: while the kernel runs, in every MemorySet every page of an area is
\* mapped to the frame the area records for it and every frame is recorded for
\* one page of one area; and after shrink_to or remove_area_with_start_vpn the
\* pages taken from an area are unmapped and their frames are back in the
\* allocator
C19_AreasFramesEntries ==
  /\ [](~mem_panic => \A m \in MemProcs :
                        memory_set[m].alive => AreasMapped(memory_set[m], frame_allocator))
  /\ [][~mem_panic' => \A m \in MemProcs :
                         memory_set[m].alive
                           => RemovedUnmapped(memory_set[m], memory_set'[m], frame_allocator')]_vars

\* sys_sbrk has shrunk the area at the bottom of the heap by the eleven pages
\* it held, and their frames are back in the allocator
C19_Witness ==
  /\ mem_last.op = "sbrk" /\ mem_last.arg = -11 * PAGE_SIZE /\ mem_last.ret # -1
  /\ ~mem_panic
  /\ Len(frame_allocator.recycled) >= 11

(***************************************************************************)
(* easy-fs/src/bitmap.rs : alloc and dealloc                               *)
(***************************************************************************)
\* the words of a block that are not u64::MAX
NotFullWords(block) == {w \in WordIds : block[w] # U64_MAX}

\* the least element of a non-empty set of naturals
Least(S) == CHOOSE x \in S : \A y \in S : x <= y

\* the closure of alloc on block block_id, which has a word that is not full:
\* the first such word, its lowest 0 bit
alloc_in_block(B, block_id, bits64_pos, inner_pos) ==
  [some |-> TRUE,
   ret |-> block_id * BLOCK_BITS + bits64_pos * U64Bits + inner_pos,
   blocks |-> [B EXCEPT ![block_id][bits64_pos] = @ \cup {inner_pos}]]

AllocNoBlockBase(B) ==
  LET bs == {b \in BlockIds : NotFullWords(B[b]) # {}} IN
    IF bs = {} THEN [some |-> FALSE, ret |-> 0, blocks |-> B]
    ELSE \* the mutant forgets block_id * BLOCK_BITS
         CHOOSE r \in {[alloc_in_block(B, b, w, trailing_ones(B[b][w]))
                          EXCEPT !.ret = w * U64Bits + trailing_ones(B[b][w])] :
                         b \in {Least(bs)}, w \in {Least(NotFullWords(B[Least(bs)]))}} : TRUE

\* Bitmap::alloc : the first block with a word that is not full
Bitmap_alloc(B) ==
  LET bs == {b \in BlockIds : NotFullWords(B[b]) # {}} IN
    IF bs = {} THEN [some |-> FALSE, ret |-> 0, blocks |-> B]
    ELSE CHOOSE r \in {alloc_in_block(B, b, w, trailing_ones(B[b][w])) :
                         b \in {Least(bs)}, w \in {Least(NotFullWords(B[Least(bs)]))}} : TRUE

\* decomposition
decomposition(bit) ==
  [block_pos |-> bit \div BLOCK_BITS,
   bits64_pos |-> (bit % BLOCK_BITS) \div U64Bits,
   inner_pos |-> (bit % BLOCK_BITS) % U64Bits]

\* Bitmap::dealloc of a bit below maximum(): the assert!, then the subtraction
\* of 1 << inner_pos from a word that has this bit
Bitmap_dealloc(B, bit) ==
  LET d == decomposition(bit) IN
    IF d.inner_pos \notin B[d.block_pos][d.bits64_pos]
    THEN [panic |-> TRUE, blocks |-> B]
    ELSE [panic |-> FALSE,
          blocks |-> [B EXCEPT ![d.block_pos][d.bits64_pos] = @ \ {d.inner_pos}]]

BitmapRuns == ~bitmap.panic /\ bitmap.n < MaxBitmapOps

\* a call of alloc
BitmapAlloc ==
  /\ BitmapRuns
  /\ \E r \in {Bitmap_alloc(bitmap.blocks)} :
       bitmap' = [blocks |-> r.blocks, saved |-> bitmap.blocks,
                  last |-> [op |-> "alloc", arg |-> 0, some |-> r.some, ret |-> r.ret],
                  prev |-> bitmap.last, panic |-> FALSE, n |-> bitmap.n + 1]
  /\ UNCHANGED OtherThanBitmap

\* the bits the calls of dealloc name: the ends of the first words and of the
\* blocks, and the bit the last alloc returned
DeallocBits ==
  ({0, 1, U64Bits - 1, U64Bits, BLOCK_BITS - 1, BLOCK_BITS, maximum - 1}
     \cup {bitmap.last.ret}) \cap (0 .. (maximum - 1))

\* a call of dealloc
BitmapDealloc ==
  /\ BitmapRuns
  /\ \E bit \in DeallocBits :
       \E r \in {Bitmap_dealloc(bitmap.blocks, bit)} :
         bitmap' = [bitmap EXCEPT !.blocks = r.blocks,
                                  !.last = [op |-> "dealloc", arg |-> bit,
                                            some |-> FALSE, ret |-> 0],
                                  !.prev = bitmap.last,
                                  !.panic = r.panic,
                                  !.n = @ + 1]
  /\ UNCHANGED OtherThanBitmap

NextBitmap == BitmapAlloc \/ BitmapDealloc

\* the bitmaps the model starts from: after no alloc, after the allocs that
\* fill a word, a block and the whole bitmap, and one short of each
InitFills ==
  {0, U64Bits - 1, U64Bits, BLOCK_BITS - 1, BLOCK_BITS, maximum - 1, maximum}

InitBitmapFilled ==
  /\ InitSync /\ InitPipe /\ InitProc
  /\ InitMem /\ InitSig /\ InitFd /\ InitEfs /\ InitCondvar
  /\ \E n \in InitFills : bitmap = BitmapWith(FilledTo(n))

SpecBitmap == InitBitmapFilled /\ [][NextBitmap]_vars

(***************************************************************************)
(* C20 : alloc and dealloc of the bitmap                                   *)
(***************************************************************************)
\* bit number k of the blocks B is 1
BitIsSet(B, k) ==
  (k % U64Bits) \in B[k \div BLOCK_BITS][(k % BLOCK_BITS) \div U64Bits]

\* every bit of B is 1
AllSet(B) == \A b \in BlockIds, w \in WordIds : B[b][w] = U64_MAX

\* every bit of B below bit number k is 1
AllSetBelow(B, k) ==
  /\ \A b \in BlockIds, w \in WordIds :
       b * BLOCK_BITS + (w + 1) * U64Bits <= k => B[b][w] = U64_MAX
  /\ \A j \in (k - (k % U64Bits)) .. (k - 1) : BitIsSet(B, j)

\* B2 is B but for bit number k, which has the value v (TRUE for 1)
DiffersAt(B, B2, k, v) ==
  /\ BitIsSet(B2, k) = v
  /\ BitIsSet(B, k) = ~v
  /\ \A b \in BlockIds, w \in WordIds :
       IF b * BLOCK_BITS + w * U64Bits = k - (k % U64Bits)
       THEN B2[b][w] \ {k % U64Bits} = B[b][w] \ {k % U64Bits}
       ELSE B2[b][w] = B[b][w]

\* a call of alloc: None and no change when every bit is 1; else the lowest 0
\* bit, which becomes 1 and is the only bit that changes
AllocStep ==
  bitmap'.last.op = "alloc" /\ bitmap'.n = bitmap.n + 1
    => IF AllSet(bitmap.blocks)
       THEN ~bitmap'.last.some /\ bitmap'.blocks = bitmap.blocks
       ELSE /\ bitmap'.last.some
            /\ bitmap'.last.ret \in 0 .. (maximum - 1)
            /\ AllSetBelow(bitmap.blocks, bitmap'.last.ret)
            /\ DiffersAt(bitmap.blocks, bitmap'.blocks, bitmap'.last.ret, TRUE)

\* a call of dealloc on a bit that is 1: this bit becomes 0 and is the only
\* bit that changes
DeallocStep ==
  /\ bitmap'.last.op = "dealloc" /\ bitmap'.n = bitmap.n + 1
  /\ BitIsSet(bitmap.blocks, bitmap'.last.arg)
  => /\ ~bitmap'.panic
     /\ DiffersAt(bitmap.blocks, bitmap'.blocks, bitmap'.last.arg, FALSE)

\* alloc has returned a bit and dealloc has then been called on it
AllocThenDealloc ==
  /\ bitmap.prev.op = "alloc" /\ bitmap.prev.some
  /\ bitmap.last.op = "dealloc" /\ bitmap.last.arg = bitmap.prev.ret

\* C20: alloc returns the lowest-numbered bit that is 0 and sets it alone, and
\* None when all the blocks * 4096 bits are 1; dealloc of a bit that is 1
\* clears it alone; after alloc and dealloc of the bit it returned the bitmap
\* is what it was before, and the next alloc returns this bit again
C20_AllocDeallocInverse ==
  /\ [][AllocStep /\ DeallocStep]_vars
  /\ [](AllocThenDealloc =>
          /\ ~bitmap.panic
          /\ bitmap.blocks = bitmap.saved
          /\ Bitmap_alloc(bitmap.blocks).some
          /\ Bitmap_alloc(bitmap.blocks).ret = bitmap.prev.ret)
  /\ [][AllocThenDealloc /\ bitmap'.last.op = "alloc" /\ bitmap'.n = bitmap.n + 1
          => bitmap'.last.some /\ bitmap'.last.ret = bitmap.last.arg]_vars

\* alloc has returned the first bit of the second block and dealloc has
\* cleared it
C20_Witness ==
  /\ AllocThenDealloc /\ ~bitmap.panic
  /\ bitmap.prev.ret = BLOCK_BITS

(***************************************************************************)
(* easy-fs/src/block_cache.rs.  F = [queue, disk, panic] is the cache and   *)
(* the device; held is the set of the blocks whose cache the caller holds   *)
(* (strong_count > 1).                                                      *)
(***************************************************************************)
\* BlockDevice::read_block / write_block
read_block(disk, block_id) ==
  IF block_id \in DOMAIN disk THEN disk[block_id] ELSE ZeroBlock

write_block(disk, block_id, blk) ==
  [x \in DOMAIN disk \cup {block_id} |-> IF x = block_id THEN blk ELSE disk[x]]

Cached(F, block_id) == \E i \in 1 .. Len(F.queue) : F.queue[i].block_id = block_id

CacheIndexOf(F, block_id) ==
  CHOOSE i \in 1 .. Len(F.queue) : F.queue[i].block_id = block_id

SyncNever(disk, e) == disk

\* BlockCache::sync, also called when the cache is dropped
BlockCache_sync(disk, e) ==
  IF e.modified THEN write_block(disk, e.block_id, e.cache) ELSE disk

DrainHead(F, held) ==
  [F EXCEPT !.disk = BlockCache_sync(F.disk, F.queue[1]), !.queue = Tail(F.queue)]

\* the full queue: drain the first entry nobody else holds
drain_unreferenced(F, held) ==
  LET cands == {i \in 1 .. Len(F.queue) : F.queue[i].block_id \notin held} IN
    IF cands = {} THEN [F EXCEPT !.panic = TRUE]
    ELSE [F EXCEPT !.disk = BlockCache_sync(F.disk, F.queue[Least(cands)]),
                   !.queue = RemoveAt(F.queue, Least(cands))]

\* BlockCacheManager::get_block_cache : afterwards the block is in the queue
get_block_cache(F, block_id, held) ==
  IF F.panic \/ Cached(F, block_id) THEN F
  ELSE Bind(IF Len(F.queue) = BLOCK_CACHE_SIZE THEN drain_unreferenced(F, held) ELSE F,
            LAMBDA G :
              IF G.panic THEN G
              ELSE [G EXCEPT !.queue =
                      Append(@, [block_id |-> block_id,
                                 cache |-> read_block(G.disk, block_id),
                                 modified |-> FALSE])])

\* BlockCache::read on a block in the queue: its contents
BlockCache_read(F, block_id) == F.queue[CacheIndexOf(F, block_id)].cache

\* BlockCache::modify on a block in the queue, the closure leaving blk
BlockCache_modify(F, block_id, blk) ==
  [F EXCEPT !.queue[CacheIndexOf(F, block_id)] =
     [block_id |-> block_id, cache |-> blk, modified |-> TRUE]]

\* block_cache_sync_all
block_cache_sync_all(F) ==
  [F EXCEPT !.disk = [x \in DOMAIN F.disk \cup {e.block_id : e \in {q \in Range(F.queue) : q.modified}} |->
                        IF \E q \in Range(F.queue) : q.block_id = x /\ q.modified
                        THEN (CHOOSE q \in Range(F.queue) : q.block_id = x).cache
                        ELSE F.disk[x]],
            !.queue = [i \in 1 .. Len(F.queue) |-> [F.queue[i] EXCEPT !.modified = FALSE]]]

\* entry i of an index block; byte i of a data block
IdxAt(blk, i) == IF i \in DOMAIN blk.idx THEN blk.idx[i] ELSE 0
ByteAt(blk, i) == IF i \in DOMAIN blk.bytes THEN blk.bytes[i] ELSE 0

\* the index block with the entries from..to-1 taken from the sequence nb,
\* starting at nb[it]
SetIdxRange(blk, from, to, nb, it) ==
  [blk EXCEPT !.idx = [x \in DOMAIN blk.idx \cup (from .. (to - 1)) |->
                         IF x >= from /\ x < to THEN nb[it + (x - from)]
                         ELSE blk.idx[x]]]

(***************************************************************************)
(* easy-fs/src/layout.rs : DiskInode                                       *)
(***************************************************************************)
DivCeil(a, b) == (a + b - 1) \div b

\* DiskInode::_data_blocks
data_blocks(size) == DivCeil(size, BLOCK_SZ)

\* DiskInode::total_blocks
total_blocks(size) ==
  data_blocks(size)
    + (IF data_blocks(size) > DIRECT_BOUND THEN 1 ELSE 0)
    + (IF data_blocks(size) > INDIRECT1_BOUND
       THEN 1 + DivCeil(data_blocks(size) - INDIRECT1_BOUND, INODE_INDIRECT1_COUNT)
       ELSE 0)

\* DiskInode::blocks_num_needed, for new_size >= the size of the inode
blocks_num_needed(inode, new_size) == total_blocks(new_size) - total_blocks(inode.size)

\* DiskInode::get_block_id : [f, id]; an index past the end of an index block
\* is a panic
get_block_id(F, inode, inner_id) ==
  IF F.panic THEN [f |-> F, id |-> 0]
  ELSE IF inner_id < INODE_DIRECT_COUNT THEN [f |-> F, id |-> inode.direct[inner_id]]
  ELSE IF inner_id < INDIRECT1_BOUND
  THEN Bind(get_block_cache(F, inode.indirect1, {}),
            LAMBDA G : [f |-> G,
                        id |-> IF G.panic THEN 0
                               ELSE IdxAt(BlockCache_read(G, inode.indirect1),
                                          inner_id - INODE_DIRECT_COUNT)])
  ELSE IF (inner_id - INDIRECT1_BOUND) \div INODE_INDIRECT1_COUNT >= INODE_INDIRECT1_COUNT
  THEN [f |-> [F EXCEPT !.panic = TRUE], id |-> 0]
  ELSE Bind(get_block_cache(F, inode.indirect2, {}),
            LAMBDA G :
              IF G.panic THEN [f |-> G, id |-> 0]
              ELSE Bind(IdxAt(BlockCache_read(G, inode.indirect2),
                              (inner_id - INDIRECT1_BOUND) \div INODE_INDIRECT1_COUNT),
                        LAMBDA indirect1 :
                          Bind(get_block_cache(G, indirect1, {}),
                               LAMBDA H :
                                 [f |-> H,
                                  id |-> IF H.panic THEN 0
                                         ELSE IdxAt(BlockCache_read(H, indirect1),
                                                    (inner_id - INDIRECT1_BOUND)
                                                      % INODE_INDIRECT1_COUNT)])))

\* new_blocks.next().unwrap() : the iterator is at nb[S.it]
NoNextBlock(S, nb) == S.it > Len(nb)

Panicked(S) == [S EXCEPT !.f.panic = TRUE]

IncDirectFromZero(F, inode, new_size, nb) ==
  LET cur0 == data_blocks(inode.size)
      d_end == Min(data_blocks(new_size), INODE_DIRECT_COUNT)
      cnt == IF cur0 < d_end THEN d_end - cur0 ELSE 0 IN
    [f |-> F,
     inode |-> [inode EXCEPT !.size = new_size,
                             !.direct = [k \in DOMAIN inode.direct |->
                                           IF k < cnt THEN nb[1 + k]
                                           ELSE inode.direct[k]]],
     it |-> 1 + cnt,
     cur |-> IF cur0 < d_end THEN d_end ELSE cur0,
     tot |-> data_blocks(new_size)]

\* increase_size, the loop over the direct entries.  S = [f, inode, it, cur,
\* tot] : the cache and the device, the inode, the position of the iterator
\* new_blocks, current_blocks and total_blocks
inc_direct(F, inode, new_size, nb) ==
  LET cur0 == data_blocks(inode.size)
      d_end == Min(data_blocks(new_size), INODE_DIRECT_COUNT)
      cnt == IF cur0 < d_end THEN d_end - cur0 ELSE 0 IN
    IF cnt > Len(nb)
    THEN [f |-> [F EXCEPT !.panic = TRUE], inode |-> inode, it |-> 1, cur |-> cur0,
          tot |-> data_blocks(new_size)]
    ELSE [f |-> F,
          inode |-> [inode EXCEPT !.size = new_size,
                                  !.direct = [k \in DOMAIN inode.direct |->
                                                IF k >= cur0 /\ k < d_end
                                                THEN nb[1 + (k - cur0)]
                                                ELSE inode.direct[k]]],
          it |-> 1 + cnt,
          cur |-> IF cur0 < d_end THEN d_end ELSE cur0,
          tot |-> data_blocks(new_size)]

Indirect1BlockAlways(S, nb) ==
  IF NoNextBlock(S, nb) THEN Panicked(S)
  ELSE [S EXCEPT !.inode.indirect1 = nb[S.it], !.it = @ + 1,
                 !.cur = @ - INODE_DIRECT_COUNT, !.tot = @ - INODE_DIRECT_COUNT]

\* total_blocks > INODE_DIRECT_COUNT : the block of the first-level index
inc_indirect1_block(S, nb) ==
  IF S.cur = INODE_DIRECT_COUNT
  THEN IF NoNextBlock(S, nb) THEN Panicked(S)
       ELSE [S EXCEPT !.inode.indirect1 = nb[S.it], !.it = @ + 1,
                      !.cur = @ - INODE_DIRECT_COUNT, !.tot = @ - INODE_DIRECT_COUNT]
  ELSE [S EXCEPT !.cur = @ - INODE_DIRECT_COUNT, !.tot = @ - INODE_DIRECT_COUNT]

\* the loop over the entries of the first-level index block
inc_indirect1_fill(S, nb) ==
  IF S.f.panic THEN S
  ELSE Bind(get_block_cache(S.f, S.inode.indirect1, {}),
            LAMBDA G :
              IF G.panic THEN [S EXCEPT !.f = G]
              ELSE LET e_end == Min(S.tot, INODE_INDIRECT1_COUNT)
                       cnt == IF S.cur < e_end THEN e_end - S.cur ELSE 0 IN
                     IF S.it + cnt - 1 > Len(nb) THEN Panicked(S)
                     ELSE [S EXCEPT
                             !.f = BlockCache_modify(G, S.inode.indirect1,
                                     SetIdxRange(BlockCache_read(G, S.inode.indirect1),
                                                 S.cur, S.cur + cnt, nb, S.it)),
                             !.it = @ + cnt,
                             !.cur = @ + cnt])

\* total_blocks > INODE_INDIRECT1_COUNT : the block of the second-level index
inc_indirect2_block(S, nb) ==
  IF S.f.panic THEN S
  ELSE IF S.cur = INODE_INDIRECT1_COUNT
  THEN IF NoNextBlock(S, nb) THEN Panicked(S)
       ELSE [S EXCEPT !.inode.indirect2 = nb[S.it], !.it = @ + 1,
                      !.cur = @ - INODE_INDIRECT1_COUNT, !.tot = @ - INODE_INDIRECT1_COUNT]
  ELSE [S EXCEPT !.cur = @ - INODE_INDIRECT1_COUNT, !.tot = @ - INODE_INDIRECT1_COUNT]

\* one round of the loop over (a0, b0): with b0 = 0 a new first-level block
\* goes to indirect2[a0]; then the next block goes to entry b0 of the block
\* indirect2[a0]
inc_indirect2_entry(S, nb, a0, b0) ==
  IF a0 >= INODE_INDIRECT1_COUNT \/ S.it + (IF b0 = 0 THEN 1 ELSE 0) > Len(nb)
  THEN Panicked(S)
  ELSE Bind(IF b0 = 0
            THEN [S EXCEPT
                    !.f = BlockCache_modify(S.f, S.inode.indirect2,
                            SetIdxRange(BlockCache_read(S.f, S.inode.indirect2),
                                        a0, a0 + 1, nb, S.it)),
                    !.it = @ + 1]
            ELSE S,
            LAMBDA T :
              Bind(IdxAt(BlockCache_read(T.f, T.inode.indirect2), a0),
                   LAMBDA indirect1 :
                     Bind(get_block_cache(T.f, indirect1, {T.inode.indirect2}),
                          LAMBDA G :
                            IF G.panic THEN [T EXCEPT !.f = G]
                            ELSE [T EXCEPT
                                    !.f = BlockCache_modify(G, indirect1,
                                            SetIdxRange(BlockCache_read(G, indirect1),
                                                        b0, b0 + 1, nb, T.it)),
                                    !.it = @ + 1])))

\* the rounds of the loop from (a0, b0) up to (a1, b1): the pair (a, b) is
\* the number a * INODE_INDIRECT1_COUNT + b, which a round increases by one;
\* the rounds from..to-1 are the rounds of the first half, then the others
RECURSIVE inc_indirect2_loop(_, _, _, _)
inc_indirect2_loop(S, nb, from, to) ==
  IF S.f.panic \/ from >= to THEN S
  ELSE IF to = from + 1
  THEN inc_indirect2_entry(S, nb, from \div INODE_INDIRECT1_COUNT,
                           from % INODE_INDIRECT1_COUNT)
  ELSE Bind(inc_indirect2_loop(S, nb, from, from + (to - from) \div 2),
            LAMBDA T : inc_indirect2_loop(T, nb, from + (to - from) \div 2, to))

\* the second-level index block is fetched and modified, then the loop
inc_indirect2_fill(S, nb) ==
  IF S.f.panic THEN S
  ELSE Bind(get_block_cache(S.f, S.inode.indirect2, {}),
            LAMBDA G :
              IF G.panic THEN [S EXCEPT !.f = G]
              ELSE Bind([S EXCEPT !.f = BlockCache_modify(G, S.inode.indirect2,
                                          BlockCache_read(G, S.inode.indirect2))],
                        LAMBDA T :
                          inc_indirect2_loop(T, nb, T.cur, T.tot)))

\* DiskInode::increase_size : [f, inode, it, cur, tot]
increase_size(F, inode, new_size, nb) ==
  Bind(inc_direct(F, inode, new_size, nb),
       LAMBDA S0 :
         IF S0.f.panic \/ ~(S0.tot > INODE_DIRECT_COUNT) THEN S0
         ELSE Bind(inc_indirect1_fill(inc_indirect1_block(S0, nb), nb),
                   LAMBDA S1 :
                     IF S1.f.panic \/ ~(S1.tot > INODE_INDIRECT1_COUNT) THEN S1
                     ELSE inc_indirect2_fill(inc_indirect2_block(S1, nb), nb)))

\* the entries 0 .. n-1 of an index block, in order
IdxPrefix(blk, n) == [i \in 1 .. n |-> IdxAt(blk, i - 1)]

\* clear_size, the loop over the direct entries.  S = [f, inode, v, data] :
\* v is the vector, data is data_blocks
clear_direct(F, inode) ==
  LET data == data_blocks(inode.size)
      d_end == Min(data, INODE_DIRECT_COUNT) IN
    [f |-> F,
     inode |-> [inode EXCEPT !.size = 0,
                             !.direct = [k \in DOMAIN inode.direct |->
                                           IF k < d_end THEN 0 ELSE inode.direct[k]]],
     v |-> [i \in 1 .. d_end |-> inode.direct[i - 1]],
     data |-> data]

\* data_blocks > INODE_DIRECT_COUNT : the first-level index block and its entries
clear_indirect1(S) ==
  Bind(get_block_cache(S.f, S.inode.indirect1, {}),
       LAMBDA G :
         IF G.panic THEN [S EXCEPT !.f = G]
         ELSE [S EXCEPT
                 !.f = BlockCache_modify(G, S.inode.indirect1,
                                         BlockCache_read(G, S.inode.indirect1)),
                 !.v = (@ \o <<S.inode.indirect1>>)
                         \o IdxPrefix(BlockCache_read(G, S.inode.indirect1),
                                      Min(S.data - INODE_DIRECT_COUNT, INODE_INDIRECT1_COUNT)),
                 !.inode.indirect1 = 0,
                 !.data = @ - INODE_DIRECT_COUNT])

ClearSubBlockEntriesOnly(S, a, n) ==
  Bind(IdxAt(BlockCache_read(S.f, S.inode.indirect2), a),
       LAMBDA entry :
         Bind(get_block_cache(S.f, entry, {S.inode.indirect2}),
              LAMBDA G :
                IF G.panic THEN [S EXCEPT !.f = G]
                ELSE [S EXCEPT
                        !.f = BlockCache_modify(G, entry, BlockCache_read(G, entry)),
                        !.v = @ \o IdxPrefix(BlockCache_read(G, entry), n)]))

\* the block indirect2[a] and its first n entries
clear_sub_block(S, a, n) ==
  Bind(IdxAt(BlockCache_read(S.f, S.inode.indirect2), a),
       LAMBDA entry :
         Bind(get_block_cache(S.f, entry, {S.inode.indirect2}),
              LAMBDA G :
                IF G.panic THEN [S EXCEPT !.f = G]
                ELSE [S EXCEPT
                        !.f = BlockCache_modify(G, entry, BlockCache_read(G, entry)),
                        !.v = (@ \o <<entry>>) \o IdxPrefix(BlockCache_read(G, entry), n)]))

\* indirect2.iter_mut().take(a1), from entry a on
RECURSIVE clear_full_blocks(_, _, _)
clear_full_blocks(S, a, a1) ==
  IF S.f.panic \/ a >= a1 \/ a >= INODE_INDIRECT1_COUNT THEN S
  ELSE Bind(clear_sub_block(S, a, INODE_INDIRECT1_COUNT),
            LAMBDA T : clear_full_blocks(T, a + 1, a1))

\* data_blocks > INODE_INDIRECT1_COUNT : the second-level index block, the
\* full first-level blocks and the last one
clear_indirect2(S) ==
  IF S.data - INODE_INDIRECT1_COUNT > INODE_INDIRECT2_COUNT THEN Panicked(S)
  ELSE Bind(get_block_cache(S.f, S.inode.indirect2, {}),
            LAMBDA G :
              IF G.panic THEN [S EXCEPT !.f = G]
              ELSE Bind([S EXCEPT
                           !.f = BlockCache_modify(G, S.inode.indirect2,
                                                   BlockCache_read(G, S.inode.indirect2)),
                           !.v = @ \o <<S.inode.indirect2>>,
                           !.data = @ - INODE_INDIRECT1_COUNT],
                        LAMBDA T :
                          Bind(clear_full_blocks(T, 0, T.data \div INODE_INDIRECT1_COUNT),
                               LAMBDA U :
                                 Bind(IF U.f.panic \/ U.data % INODE_INDIRECT1_COUNT = 0
                                      THEN U
                                      ELSE IF U.data \div INODE_INDIRECT1_COUNT
                                                >= INODE_INDIRECT1_COUNT
                                      THEN Panicked(U)
                                      ELSE clear_sub_block(U, U.data \div INODE_INDIRECT1_COUNT,
                                                           U.data % INODE_INDIRECT1_COUNT),
                                      LAMBDA W : [W EXCEPT !.inode.indirect2 = 0]))))

\* DiskInode::clear_size : [f, inode, v, data]
clear_size(F, inode) ==
  Bind(clear_direct(F, inode),
       LAMBDA S0 :
         IF ~(S0.data > INODE_DIRECT_COUNT) THEN S0
         ELSE Bind(clear_indirect1(S0),
                   LAMBDA S1 :
                     IF S1.f.panic \/ ~(S1.data > INODE_INDIRECT1_COUNT) THEN S1
                     ELSE clear_indirect2(S1)))

\* the data block with the bytes from .. from+cnt-1 taken from buf[bi + 1 ..]
SetBytes(blk, from, cnt, buf, bi) ==
  [blk EXCEPT !.bytes = [x \in DOMAIN blk.bytes \cup (from .. (from + cnt - 1)) |->
                           IF x >= from /\ x < from + cnt THEN buf[bi + 1 + (x - from)]
                           ELSE blk.bytes[x]]]

\* read_at, the loop from byte start of the file: [f, buf]
RECURSIVE read_loop(_, _, _, _, _)
read_loop(F, inode, start, end, buf) ==
  LET end_current_block == Min((start \div BLOCK_SZ + 1) * BLOCK_SZ, end) IN
    Bind(get_block_id(F, inode, start \div BLOCK_SZ),
         LAMBDA r :
           Bind(get_block_cache(r.f, r.id, {}),
                LAMBDA G :
                  IF G.panic THEN [f |-> G, buf |-> buf]
                  ELSE Bind(buf \o [i \in 1 .. (end_current_block - start) |->
                                      ByteAt(BlockCache_read(G, r.id),
                                             (start % BLOCK_SZ) + (i - 1))],
                            LAMBDA buf2 :
                              IF end_current_block = end THEN [f |-> G, buf |-> buf2]
                              ELSE read_loop(G, inode, end_current_block, end, buf2))))

\* DiskInode::read_at into a buffer of len bytes : [f, ret, buf], buf being the
\* bytes read
read_at(F, inode, offset, len) ==
  IF offset >= Min(offset + len, inode.size) THEN [f |-> F, ret |-> 0, buf |-> << >>]
  ELSE Bind(read_loop(F, inode, offset, Min(offset + len, inode.size), << >>),
            LAMBDA r : [f |-> r.f, ret |-> Len(r.buf), buf |-> r.buf])

\* write_at, the loop from byte start of the file: [f, write_size]
RECURSIVE write_loop(_, _, _, _, _, _)
write_loop(F, inode, start, end, buf, write_size) ==
  LET end_current_block == Min((start \div BLOCK_SZ + 1) * BLOCK_SZ, end) IN
    Bind(get_block_id(F, inode, start \div BLOCK_SZ),
         LAMBDA r :
           Bind(get_block_cache(r.f, r.id, {}),
                LAMBDA G :
                  IF G.panic THEN [f |-> G, write_size |-> write_size]
                  ELSE Bind(BlockCache_modify(G, r.id,
                              SetBytes(BlockCache_read(G, r.id), start % BLOCK_SZ,
                                       end_current_block - start, buf, write_size)),
                            LAMBDA H :
                              IF end_current_block = end
                              THEN [f |-> H,
                                    write_size |-> write_size + (end_current_block - start)]
                              ELSE write_loop(H, inode, end_current_block, end, buf,
                                              write_size + (end_current_block - start)))))

\* DiskInode::write_at : [f, ret]
write_at(F, inode, offset, buf) ==
  IF offset > Min(offset + Len(buf), inode.size)
  THEN [f |-> [F EXCEPT !.panic = TRUE], ret |-> 0]
  ELSE Bind(write_loop(F, inode, offset, Min(offset + Len(buf), inode.size), buf, 0),
            LAMBDA r : [f |-> r.f, ret |-> r.write_size])

(***************************************************************************)
(* easy-fs/src/efs.rs : the data blocks.  The blocks of the data bitmap are *)
(* kept apart from the other blocks of the device: E = [f, bm].             *)
(***************************************************************************)
\* EasyFileSystem::alloc_data : [bm, id, panic]
alloc_data(bm) ==
  Bind(Bitmap_alloc(bm),
       LAMBDA r : [bm |-> r.blocks, id |-> r.ret + data_area_start_block,
                   panic |-> ~r.some])

\* EasyFileSystem::dealloc_data
dealloc_data(E, block_id) ==
  IF E.f.panic THEN E
  ELSE Bind(get_block_cache(E.f, block_id, {}),
            LAMBDA G :
              IF G.panic THEN [E EXCEPT !.f = G]
              ELSE IF block_id < data_area_start_block
                      \/ block_id - data_area_start_block >= maximum
              THEN [E EXCEPT !.f = [G EXCEPT !.panic = TRUE]]
              ELSE Bind(Bitmap_dealloc(E.bm, block_id - data_area_start_block),
                        LAMBDA d :
                          [f |-> [BlockCache_modify(G, block_id, ZeroBlock)
                                    EXCEPT !.panic = d.panic],
                           bm |-> d.blocks]))

(***************************************************************************)
(* The calls on the file.  The callers of DiskInode in easy-fs/src/vfs.rs   *)
(* are not part of the sources; what they do around the calls (the blocks   *)
(* for increase_size come from alloc_data, the blocks of clear_size go to   *)
(* dealloc_data) follows the description of the VFS inode layer.            *)
(***************************************************************************)
EfsF == [queue |-> efs.queue, disk |-> efs.disk, panic |-> efs.panic]

EfsRuns == ~efs.panic /\ efs.n < MaxEfsOps

\* n calls of alloc_data, one after the other (the first half of them, then
\* the others) : A = [bm, ids, panic]
RECURSIVE alloc_blocks(_, _)
alloc_blocks(A, n) ==
  IF n = 0 \/ A.panic THEN A
  ELSE IF n = 1
  THEN Bind(alloc_data(A.bm),
            LAMBDA r : [bm |-> r.bm, ids |-> Append(A.ids, r.id), panic |-> r.panic])
  ELSE Bind(alloc_blocks(A, n \div 2), LAMBDA B : alloc_blocks(B, n - n \div 2))

\* dealloc_data on v[i], ..., v[j], one after the other
RECURSIVE dealloc_blocks(_, _, _, _)
dealloc_blocks(E, v, i, j) ==
  IF i > j \/ E.f.panic THEN E
  ELSE IF i = j THEN dealloc_data(E, v[i])
  ELSE Bind(dealloc_blocks(E, v, i, i + (j - i) \div 2),
            LAMBDA E2 : dealloc_blocks(E2, v, i + (j - i) \div 2 + 1, j))

EfsCall(op, arg, arg2, ret) == [op |-> op, arg |-> arg, arg2 |-> arg2, ret |-> ret]

\* the sizes the file grows to: one byte, and the block counts at and next to
\* the bounds of the direct, first-level and second-level index
GrowSizes ==
  {1} \cup {b * BLOCK_SZ : b \in {DIRECT_BOUND, INDIRECT1_BOUND, INDIRECT1_BOUND + 1,
                                   INDIRECT1_BOUND + INODE_INDIRECT1_COUNT + 1}}

\* the file grows to new_size: blocks_num_needed blocks from alloc_data, then
\* increase_size
EfsGrow ==
  /\ EfsRuns
  /\ \E new_size \in GrowSizes :
       /\ new_size >= efs.inode.size
       /\ \E a \in {alloc_blocks([bm |-> efs.data_bitmap, ids |-> << >>, panic |-> FALSE],
                                 blocks_num_needed(efs.inode, new_size))} :
            \E F \in {[EfsF EXCEPT !.panic = a.panic]} :
            \E r \in {increase_size(F, efs.inode, new_size, a.ids)} :
              efs' = [efs EXCEPT !.queue = r.f.queue, !.disk = r.f.disk,
                                 !.panic = r.f.panic,
                                 !.data_bitmap = a.bm,
                                 !.inode = r.inode,
                                 !.supplied = @ \o a.ids,
                                 !.last = EfsCall("increase_size", new_size, Len(a.ids), r.it - 1),
                                 !.prev = efs.last.op,
                                 !.n = @ + 1]
  /\ UNCHANGED OtherThanEfs

\* the offsets and the lengths of the writes: inside a block, over the end of
\* a block, over two ends, and over the blocks at the bounds of the indexes
WriteOffsets ==
  {0, BLOCK_SZ - 10, DIRECT_BOUND * BLOCK_SZ - 10, INDIRECT1_BOUND * BLOCK_SZ - 10}

WriteLens == {0, 20, BLOCK_SZ + 20}

\* the bytes of the buffer of a write of len bytes
WriteBuf(len) == [i \in 1 .. len |-> 1 + (i % 251)]

\* DiskInode::write_at
EfsWrite ==
  /\ EfsRuns /\ efs.wr.n < MaxEfsWrites
  /\ \E off \in WriteOffsets, len \in WriteLens :
       \E buf \in {WriteBuf(len)}, F \in {EfsF} :
       \E r \in {write_at(F, efs.inode, off, buf)} :
         efs' = [efs EXCEPT !.queue = r.f.queue, !.disk = r.f.disk, !.panic = r.f.panic,
                            !.buf = buf,
                            !.wr = [off |-> off, len |-> len, n |-> @.n + 1,
                                    valid |-> efs.inode.size >= off + len],
                            !.last = EfsCall("write_at", off, len, r.ret),
                            !.prev = efs.last.op,
                            !.n = @ + 1]
  /\ UNCHANGED OtherThanEfs

\* DiskInode::read_at on the range last written, or on the first bytes of the
\* file when nothing has been written
EfsRead ==
  /\ EfsRuns
  /\ \E rg \in {IF efs.wr.n > 0 THEN [off |-> efs.wr.off, len |-> efs.wr.len]
                            ELSE [off |-> 0, len |-> 20]} :
       \E F \in {EfsF} : \E r \in {read_at(F, efs.inode, rg.off, rg.len)} :
         efs' = [efs EXCEPT !.queue = r.f.queue, !.disk = r.f.disk, !.panic = r.f.panic,
                            !.out = r.buf,
                            !.last = EfsCall("read_at", rg.off, rg.len, r.ret),
                            !.prev = efs.last.op,
                            !.n = @ + 1]
  /\ UNCHANGED OtherThanEfs

\* get_block_cache on the blocks first .. first+k-1
RECURSIVE touch_blocks(_, _, _)
touch_blocks(F, first, k) ==
  IF k = 0 \/ F.panic THEN F
  ELSE Bind(get_block_cache(F, first, {}), LAMBDA G : touch_blocks(G, first + 1, k - 1))

\* the file system reads blocks of the inode area for other files, one fewer
\* than the cache holds: the oldest entries of the queue are dropped
EfsOtherIo ==
  /\ EfsRuns
  /\ \E k \in {BLOCK_CACHE_SIZE - 1} :
       \E F \in {EfsF} : \E G \in {touch_blocks(F, 2, k)} :
         efs' = [efs EXCEPT !.queue = G.queue, !.disk = G.disk, !.panic = G.panic,
                            !.last = EfsCall("other", k, 0, 0),
                            !.prev = efs.last.op,
                            !.n = @ + 1]
  /\ UNCHANGED OtherThanEfs

\* the file is cleared: clear_size, then dealloc_data on each block of the
\* vector
EfsClear ==
  /\ EfsRuns
  /\ \E F \in {EfsF} : \E c \in {clear_size(F, efs.inode)} :
       \E E \in {dealloc_blocks([f |-> c.f, bm |-> efs.data_bitmap], c.v, 1, Len(c.v))} :
         efs' = [efs EXCEPT !.queue = E.f.queue, !.disk = E.f.disk, !.panic = E.f.panic,
                            !.data_bitmap = E.bm,
                            !.inode = c.inode,
                            !.out = c.v,
                            !.supplied = << >>,
                            !.wr.valid = FALSE,
                            !.last = EfsCall("clear_size", efs.inode.size, 0, Len(c.v)),
                            !.prev = efs.last.op,
                            !.n = @ + 1]
  /\ UNCHANGED OtherThanEfs

NextEfs == EfsGrow \/ EfsWrite \/ EfsRead \/ EfsOtherIo \/ EfsClear

\* the data bitmap when the file is created: blocks of other files are in
\* use, with a free block among them
BitmapWithHole ==
  [FilledTo(U64Bits + 3) EXCEPT ![0][0] = @ \ {1}]

InitEfsFile ==
  /\ InitSync /\ InitPipe /\ InitProc
  /\ InitMem /\ InitSig /\ InitFd /\ InitBitmap /\ InitCondvar
  /\ efs = EfsWith(BitmapWithHole)

SpecEfs == InitEfsFile /\ [][NextEfs]_vars

(***************************************************************************)
(* C21 : increase_size                                                     *)
(***************************************************************************)
\* what get_block_id gives for the indices 0 .. n-1 of the file E
BlockIdsOf(E, n) ==
  [i \in 1 .. n |->
     get_block_id([queue |-> E.queue, disk |-> E.disk, panic |-> E.panic],
                  E.inode, i - 1).id]

\* the sequence has no element twice
NoRepeat(v) == Cardinality(Range(v)) = Len(v)

\* the step is a call of op
EfsStep(op) == efs'.last.op = op /\ efs'.n = efs.n + 1

\* C21: after increase_size(n, blocks) with the blocks_num_needed(n) blocks
\* alloc_data gave, data_blocks() * 512 >= n, get_block_id(k) of every k below
\* data_blocks() is a block handed to increase_size and is not 0, two indices
\* never give the same block, and the indices the file had before give the
\* blocks they gave before
C21_IncreaseSize ==
  [][EfsStep("increase_size") =>
       /\ ~efs'.panic
       /\ efs'.inode.size = efs'.last.arg
       /\ data_blocks(efs'.inode.size) * BLOCK_SZ >= efs'.last.arg
       /\ \A old \in {BlockIdsOf(efs, data_blocks(efs.inode.size))},
             new \in {BlockIdsOf(efs', data_blocks(efs'.inode.size))} :
            /\ \A i \in 1 .. Len(new) : new[i] # 0 /\ new[i] \in Range(efs'.supplied)
            /\ NoRepeat(new)
            /\ \A i \in 1 .. Len(old) : new[i] = old[i]]_vars

\* the file has grown in two steps, the second from a full first-level index
\* to two blocks of the second level: the data blocks, the second-level index
\* block and two first-level blocks
C21_Witness ==
  /\ efs.last.op = "increase_size" /\ efs.prev = "increase_size" /\ ~efs.panic
  /\ data_blocks(efs.inode.size) = INDIRECT1_BOUND + INODE_INDIRECT1_COUNT + 1
  /\ efs.last.arg2 = (INODE_INDIRECT1_COUNT + 1) + 1 + 2

(***************************************************************************)
(* C22 : write_at, then read_at                                            *)
(***************************************************************************)
\* C22: write_at on a range the file holds returns the length of the buffer,
\* and read_at on this range then returns the length and the bytes written,
\* whatever the cache has dropped in between
C22_WriteThenRead ==
  /\ [][EfsStep("write_at") /\ efs.inode.size >= efs'.last.arg + efs'.last.arg2
          => ~efs'.panic /\ efs'.last.ret = efs'.last.arg2]_vars
  /\ [](efs.last.op = "read_at" /\ efs.wr.valid
          => /\ ~efs.panic
             /\ efs.last.arg = efs.wr.off /\ efs.last.arg2 = efs.wr.len
             /\ efs.last.ret = efs.wr.len
             /\ efs.out = efs.buf)

\* a write over the blocks at the bound of the first-level and the second-level
\* index, other blocks going through the cache, then the read
C22_Witness ==
  /\ efs.last.op = "read_at" /\ efs.prev = "other" /\ efs.wr.valid /\ ~efs.panic
  /\ efs.wr.off = INDIRECT1_BOUND * BLOCK_SZ - 10 /\ efs.wr.len = BLOCK_SZ + 20
  /\ efs.last.ret = BLOCK_SZ + 20

(***************************************************************************)
(* C23 : clear_size                                                        *)
(***************************************************************************)
\* C23: clear_size gives back each block handed to increase_size since the
\* file was empty, once, total_blocks(size) blocks in all, and the size is 0;
\* with these blocks deallocated the data bitmap is what it was when the file
\* was empty, and read_at then reads 0 bytes
C23_ClearSize ==
  /\ [][EfsStep("clear_size") =>
          /\ ~efs'.panic
          /\ Range(efs'.out) = Range(efs.supplied)
          /\ NoRepeat(efs'.out)
          /\ Len(efs'.out) = total_blocks(efs.inode.size)
          /\ efs'.inode.size = 0
          /\ efs'.data_bitmap = BitmapWithHole]_vars
  /\ [][EfsStep("read_at") /\ efs.last.op = "clear_size"
          => efs'.last.ret = 0 /\ efs'.out = << >>]_vars

\* a file with two blocks of the second level has been cleared
C23_Witness ==
  /\ efs.last.op = "clear_size" /\ ~efs.panic
  /\ efs.last.arg = (INDIRECT1_BOUND + INODE_INDIRECT1_COUNT + 1) * BLOCK_SZ
  /\ efs.last.ret = efs.last.arg \div BLOCK_SZ + 2 + 2

(***************************************************************************)
(* sync/condvar.rs, syscall/sync.rs : the condition variable of the        *)
(* process of the mutex scenario                                           *)
(***************************************************************************)
SignalWakesLast(c) ==
  IF Len(c.wait_queue) > 0 THEN c.wait_queue[Len(c.wait_queue)] ELSE NoTask

\* signal, line 30: the task woken (wait_queue.pop_front), or NoTask
Condvar_signal_task(c) ==
  IF Len(c.wait_queue) > 0 THEN Head(c.wait_queue) ELSE NoTask

\* signal, line 30: the inner state after signal
Condvar_signal(c) ==
  IF Len(c.wait_queue) > 0 THEN [c EXCEPT !.wait_queue = Tail(@)] ELSE c

\* wait, lines 39-41: wait_queue.push_back(current_task)
Condvar_wait(c, t) == [c EXCEPT !.wait_queue = Append(@, t)]

CondvarCall(op, t, w) == [op |-> op, task |-> t, woken |-> w]

\* sys_condvar_signal, by a thread that holds the mutex or does not
SysCondvarSignal(t) ==
  /\ UNCHANGED OtherThanSyncCondvar
  /\ InUser(t)
  /\ pc[t] \in {"lock", "unlock"}
  /\ LET w == Condvar_signal_task(condvar) IN
       /\ condvar' = [Condvar_signal(condvar) EXCEPT !.last = CondvarCall("signal", t, w)]
       /\ IF w # NoTask
          THEN wakeup_task(w)
          ELSE UNCHANGED <<task_status, ready_queue, timers>>
  /\ UNCHANGED <<current, task_exit_code, task_res_tid, tasks, task_res_allocator,
                 mutex, time_ms, pc, iter, reg, counter, waitlist, sleeps,
                 kernel_panic, block_device>>

\* sys_condvar_wait by the thread that holds the mutex, up to the switch in
\* block_current_and_run_next: mutex.unlock(), the push on the wait queue,
\* the thread is Blocked
SysCondvarWait(t) ==
  /\ UNCHANGED OtherThanSyncCondvar
  /\ InUser(t)
  /\ pc[t] = "unlock"
  /\ IF ~mutex.locked
     THEN \* assert!(mutex_inner.locked)
          /\ kernel_panic' = TRUE
          /\ UNCHANGED <<mutex, condvar, task_status, ready_queue, timers, pc, current>>
     ELSE LET w == unlock_waking_task(mutex) IN
          /\ mutex' = MutexBlocking_unlock(mutex)
          /\ condvar' = [Condvar_wait(condvar, t) EXCEPT !.last = CondvarCall("wait", t, w)]
          /\ task_status' = [x \in Tcbs |->
                               IF x = t THEN "Blocked"
                               ELSE IF x = w THEN "Ready" ELSE task_status[x]]
          /\ ready_queue' = IF w # NoTask THEN add_task(ready_queue, w) ELSE ready_queue
          /\ timers' = IF w # NoTask THEN remove_timer(timers, w) ELSE timers
          /\ current' = NoTask
          /\ pc' = [pc EXCEPT ![t] = "cv_blocked"]
          /\ UNCHANGED kernel_panic
  /\ UNCHANGED <<task_exit_code, task_res_tid, tasks, task_res_allocator, time_ms,
                 iter, reg, counter, waitlist, sleeps, block_device>>

\* run_tasks switches to a thread that sys_condvar_signal woke: the thread goes
\* on in Condvar::wait with mutex.lock(), and blocks again if the mutex is held
CondvarResume ==
  /\ UNCHANGED OtherThanSyncCondvar
  /\ ~kernel_panic
  /\ current = NoTask
  /\ Len(ready_queue) > 0
  /\ pc[fetch_task_head(ready_queue)] = "cv_blocked"
  /\ LET t == fetch_task_head(ready_queue) IN
       /\ ready_queue' = fetch_task_rest(ready_queue)
       /\ mutex' = MutexBlocking_lock(mutex, t)
       /\ condvar' = [condvar EXCEPT !.last = CondvarCall("resume", t, NoTask)]
       /\ IF lock_blocks(mutex)
          THEN /\ task_status' = [task_status EXCEPT ![t] = "Blocked"]
               /\ current' = NoTask
               /\ pc' = [pc EXCEPT ![t] = "relock_blocked"]
          ELSE /\ task_status' = [task_status EXCEPT ![t] = "Running"]
               /\ current' = t
               /\ pc' = [pc EXCEPT ![t] = "unlock"]
  /\ UNCHANGED <<task_exit_code, task_res_tid, tasks, task_res_allocator, timers,
                 time_ms, iter, reg, counter, waitlist, sleeps, kernel_panic,
                 block_device>>

\* run_tasks for every other thread
RunOther ==
  /\ Len(ready_queue) > 0
  /\ pc[fetch_task_head(ready_queue)] # "cv_blocked"
  /\ run_tasks

(***************************************************************************)
(* drivers/block.rs : a system call that reads a block of the device       *)
(***************************************************************************)
\* VirtIOBlock::read_block: in non-blocking mode wait_no_scheduled() on the
\* condition variable of the request and schedule(); else the driver polls
BlockRead(t) ==
  /\ UNCHANGED OtherThanSyncCondvar
  /\ InUser(t)
  /\ pc[t] = "lock"
  /\ IF block_device.nb
     THEN /\ block_device' = [block_device EXCEPT !.wait_queue = Append(@, t)]
          /\ task_status' = [task_status EXCEPT ![t] = "Blocked"]
          /\ current' = NoTask
          /\ pc' = [pc EXCEPT ![t] = "blk_blocked"]
     ELSE UNCHANGED <<block_device, task_status, current, pc>>
  /\ UNCHANGED <<ready_queue, task_exit_code, task_res_tid, tasks, task_res_allocator,
                 mutex, timers, time_ms, iter, reg, counter, waitlist, sleeps,
                 kernel_panic, condvar>>

\* the device raises its interrupt while a request is in flight: trap_handler
\* has no arm for Interrupt::SupervisorExternal and panics ("Unsupported
\* trap"), trap_from_kernel panics; irq_handler (board.rs) has no caller
ExternalInterrupt ==
  /\ UNCHANGED OtherThanSyncCondvar
  /\ ~kernel_panic
  /\ Len(block_device.wait_queue) > 0
  /\ kernel_panic' = TRUE
  /\ UNCHANGED <<ready_queue, current, task_status, task_exit_code, task_res_tid,
                 tasks, task_res_allocator, mutex, timers, time_ms, pc, iter, reg,
                 counter, waitlist, sleeps, condvar, block_device>>

\* sys_exit at any point of the user program
SysExitEarly(t) ==
  /\ UNCHANGED OtherThanSync
  /\ InUser(t)
  /\ pc[t] \in {"create", "lock", "unlock", "waittid", "yield"}
  /\ sys_exit(t)

CondvarStep(t) ==
  \/ SysCondvarSignal(t)
  \/ SysCondvarWait(t)
  \/ BlockRead(t)
  \/ SysSleep(t)
  \/ SysExitEarly(t)

NextCondvar ==
  \/ RunOther
  \/ CondvarResume
  \/ TimerInterrupt
  \/ ExternalInterrupt
  \/ \E t \in Tcbs : ThreadStep(t)
  \/ \E t \in Tcbs : CondvarStep(t)

\* the boot code that switches the driver to the non-blocking mode is not part
\* of the source tree: both modes are initial states
InitCondvarModes ==
  /\ InitSync /\ InitPipe /\ InitProc
  /\ InitMem /\ InitSig /\ InitFd /\ InitBitmap /\ InitEfs
  /\ condvar = [wait_queue |-> << >>, last |-> NoCondvarCall]
  /\ \E nb \in BOOLEAN : block_device = [nb |-> nb, wait_queue |-> << >>]
  /\ thread_call = NoThreadCall

SpecCondvar == InitCondvarModes /\ [][NextCondvar]_vars

\* the main thread has exited: the process is a zombie
MainExited == task_exit_code[MainTcb] # << >>

\* C24: once the main thread of the process has exited, the ready queue and
\* the timer heap hold no thread of the process and no thread of the process
\* runs, whatever the other threads were doing when it exited.
C24_ExitPurgesSiblings ==
  MainExited =>
    /\ ready_queue = << >>
    /\ timers = {}
    /\ current = NoTask

\* the main thread has exited while one thread waited on the condition
\* variable or slept and another waited for the block device or the mutex
C24_Witness ==
  /\ MainExited
  /\ \E a, b \in Tcbs \ {MainTcb} :
       /\ pc[a] \in {"cv_blocked", "sleep_blocked"}
       /\ pc[b] \in {"blk_blocked", "lock_blocked"}

\* a thread that has called Condvar::wait and has not been woken is in the
\* wait queue from the step that released the mutex on
WaitersQueued ==
  \A t \in Tcbs :
    (pc[t] = "cv_blocked" /\ task_status[t] = "Blocked")
      => t \in Range(condvar.wait_queue)

\* the step is a call of sys_condvar_wait by the holder of the mutex
WaitStep(t) == pc[t] = "unlock" /\ pc'[t] = "cv_blocked"

\* the step is a call of sys_condvar_signal
SignalStep == condvar'.last.op = "signal" /\ condvar' # condvar

\* Condvar::wait returns to thread t
WaitReturns(t) == pc[t] \in {"cv_blocked", "relock_blocked"} /\ pc'[t] = "unlock"

\* C28: the step of Condvar::wait that releases the mutex puts the caller on
\* the wait queue and blocks it, so a waiter that has not been woken is always
\* queued; signal wakes the head of the queue and no other thread, and changes
\* nothing when the queue is empty; when wait returns the caller is the one
\* holder of the mutex.
C28_CondvarWaitSignal ==
  /\ []WaitersQueued
  /\ [][/\ \A t \in Tcbs :
            WaitStep(t) =>
              /\ condvar'.wait_queue = Append(condvar.wait_queue, t)
              /\ mutex' = MutexBlocking_unlock(mutex)
              /\ task_status'[t] = "Blocked" /\ current' = NoTask
        /\ SignalStep =>
             IF Len(condvar.wait_queue) > 0
             THEN /\ condvar'.last.woken = Head(condvar.wait_queue)
                  /\ condvar'.wait_queue = Tail(condvar.wait_queue)
                  /\ ready_queue' = Append(ready_queue, Head(condvar.wait_queue))
                  /\ task_status' = [task_status EXCEPT ![Head(condvar.wait_queue)] = "Ready"]
             ELSE /\ condvar'.last.woken = NoTask
                  /\ condvar'.wait_queue = << >>
                  /\ UNCHANGED <<ready_queue, task_status, mutex, current, pc>>
        /\ \A t \in Tcbs :
             WaitReturns(t) =>
               /\ mutex'.locked /\ current' = t
               /\ {u \in Tcbs : InCS(u)'} = {t}]_vars

\* a thread that a signal woke has returned from wait and runs, while another
\* waiter is still queued
C28_Witness ==
  /\ condvar.last.op = "resume"
  /\ Len(condvar.wait_queue) > 0
  /\ \E t \in Tcbs : t = condvar.last.task /\ pc[t] = "unlock" /\ current = t

(***************************************************************************)
(* The signals the kernel handles itself (task/mod.rs): the process is      *)
(* sent SIGDEF, SIGKILL, SIGCONT, SIGSTOP and SIGUSR1, masks SIGCONT or    *)
(* not, and installs a handler for SIGUSR1                                 *)
(***************************************************************************)
KernelOnlySigs == {SIGDEF, SIGKILL, SIGCONT, SIGSTOP}
StopSendSigs == KernelOnlySigs \cup {SIGUSR1}
StopMaskSigs == {SIGCONT}
StopActionSigs == {SIGUSR1}
StopActionMasks == {{}, {SIGCONT}}

StopKillSelf == sys_kill_self(StopSendSigs)
StopKillOther == sys_kill_other(StopSendSigs)
StopProcmask == sys_sigprocmask(StopMaskSigs)
StopAction == sys_sigaction(StopActionSigs, StopActionMasks)

NextStop ==
  \/ StopKillSelf
  \/ StopKillOther
  \/ SigFrozenResume
  \/ StopProcmask
  \/ StopAction
  \/ SigReturn
  \/ SigOtherTrap

SpecStop == InitAll /\ [][NextStop]_vars

\* C25: at the end of a trap in which call_kernel_signal_handler has been
\* called for a signal, the signal is no longer pending; the process is
\* frozen if the signal was SIGSTOP, not frozen if it was SIGCONT and SIGSTOP
\* was not handled after it, and killed if it was SIGKILL or SIGDEF.
C25_KernelSignalHandled ==
  \A s \in sigp.last.kernel :
    /\ s \notin sigp.signals
    /\ s = SIGSTOP => sigp.frozen
    /\ (s = SIGCONT /\ SIGSTOP \notin sigp.last.kernel) => ~sigp.frozen
    /\ s \in {SIGKILL, SIGDEF} => sigp.killed

\* The thread of a frozen process has suspended itself in handle_signals and
\* is in the ready queue: the idle loop dispatches it again.
SpecStopFair == SpecStop /\ WF_vars(SigFrozenResume)

\* SIGCONT is pending and neither the mask of the process nor the mask of a
\* handler that runs holds it
ContSent ==
  /\ pending_unmasked(sigp, SIGCONT)
  /\ ~masked_by_handler(sigp, SIGCONT)

\* C26: the thread of a process that is frozen and not killed is not in user
\* mode, and for a frozen process with SIGCONT pending and not masked the
\* kernel eventually handles SIGCONT (which unfreezes the process) or the
\* thread leaves the loop of handle_signals, whatever else is pending.
C26_ContUnfreezes ==
  /\ [](sigp.where = "user" => (~sigp.frozen \/ sigp.killed))
  /\ (sigp.where = "frozen" /\ ContSent)
       ~> (sigp.where # "frozen" \/ SIGCONT \notin sigp.signals)

(***************************************************************************)
(* Nested user handlers (task/mod.rs, syscall/process.rs): the process     *)
(* installs handlers for SIGINT and SIGUSR1 and is sent both; the trap     *)
(* context of the model holds sepc and a0                                  *)
(***************************************************************************)
\* handlers that have not ended, at most, when a signal is sent
MaxNest == 2

NestSendSigs == {SIGINT, SIGUSR1}
NestActionSigs == {SIGINT, SIGUSR1}
NestActionMasks == {{}, {SIGINT, SIGUSR1}}

NestKillSelf == Len(sigp.frames) < MaxNest /\ sys_kill_self(NestSendSigs)
NestKillOther == Len(sigp.frames) < MaxNest /\ sys_kill_other(NestSendSigs)
NestAction == sys_sigaction(NestActionSigs, NestActionMasks)

NextNest ==
  \/ NestKillSelf
  \/ NestKillOther
  \/ NestAction
  \/ SigReturn
  \/ SigOtherTrap

InitNest ==
  /\ InitSync /\ InitPipe /\ InitProc
  /\ InitMem /\ InitFd /\ InitBitmap /\ InitEfs /\ InitCondvar
  /\ sigp = [signals |-> {}, signal_mask |-> {},
            signal_actions |-> [s \in 0 .. MAX_SIG |-> DefaultAction],
            handling_sig |-> -1, trap_ctx_backup |-> << >>,
            killed |-> FALSE, frozen |-> FALSE,
            trap_cx |-> [sepc |-> MainPc, a0 |-> 0],
            where |-> "user", exit_code |-> 0, last |-> NoSigTrap,
            frames |-> << >>]

SpecNest == InitNest /\ [][NextNest]_vars

\* the step is a sys_sigreturn that ends a handler
SigreturnEndsHandler ==
  /\ sigp'.last.op = "sigreturn" /\ sigp' # sigp
  /\ sigp'.where # "panic"
  /\ Len(sigp.frames) > 0

\* the trap context sys_sigreturn has left: the end of the same trap may have
\* saved it again for the next handler
ContextRestored(P) ==
  IF P.last.delivered = -1 THEN P.trap_cx ELSE P.trap_ctx_backup[1]

\* C27: a sys_sigreturn that ends a handler leaves, in sepc and a0, the trap
\* context that the delivery of that handler saved, and handling_sig = -1
\* (unless the same trap delivers the next signal); also when the handler
\* that ends was interrupted by a second handler that has ended before.
C27_SigreturnRestoresSaved ==
  [][SigreturnEndsHandler =>
       /\ ContextRestored(sigp') = sigp.frames[Len(sigp.frames)]
       /\ sigp'.last.delivered = -1 => sigp'.handling_sig = -1]_vars

(***************************************************************************)
(* syscall/thread.rs : sys_waittid with any argument, by the threads of    *)
(* the process of the mutex scenario                                       *)
(***************************************************************************)
\* sys_waittid calls with any argument in one run
MaxWaittidCalls == 2

\* the arguments: the tids the process can hand out, and the next one
WaitTids == 0 .. NThreads

\* sys_waittid(tid) by thread t: `panic` is the index out of bounds of
\* process_inner.tasks[tid], `ret` the value returned, `tasks` the vector left
sys_waittid(t, tid) ==
  IF task_res_tid[t] = <<tid>>
  THEN [panic |-> FALSE, ret |-> -1, tasks |-> tasks]
  ELSE IF tid + 1 > Len(tasks)
  THEN [panic |-> TRUE, ret |-> 0, tasks |-> tasks]
  ELSE IF tasks[tid + 1] = NoTask
  THEN [panic |-> FALSE, ret |-> -1, tasks |-> tasks]
  ELSE IF task_exit_code[tasks[tid + 1]] # << >>
  THEN [panic |-> FALSE, ret |-> task_exit_code[tasks[tid + 1]][1],
        tasks |-> [tasks EXCEPT ![tid + 1] = NoTask]]
  ELSE [panic |-> FALSE, ret |-> -2, tasks |-> tasks]

SysWaittidAny(t) ==
  /\ UNCHANGED <<pipeVars, procVars, memVars, sigp, fdt, bitmap, efs, condvar,
                 block_device>>
  /\ InUser(t)
  /\ pc[t] # "done"
  /\ thread_call.n < MaxWaittidCalls
  /\ \E tid \in WaitTids :
       \E r \in {sys_waittid(t, tid)} :
         /\ kernel_panic' = r.panic
         /\ tasks' = r.tasks
         /\ thread_call' = [task |-> t, tid |-> tid,
                            ret |-> IF r.panic THEN << >> ELSE <<r.ret>>,
                            n |-> thread_call.n + 1]
  /\ UNCHANGED <<ready_queue, current, task_status, task_exit_code, task_res_tid,
                 task_res_allocator, mutex, timers, time_ms, pc, iter, reg, counter,
                 waitlist, sleeps>>

NextWaittid ==
  \/ run_tasks
  \/ TimerInterrupt
  \/ \E t \in Tcbs : ThreadStep(t)
  \/ \E t \in Tcbs : SysWaittidAny(t)

SpecWaittid == InitAll /\ [][NextWaittid]_vars

\* the thread with this tid is in the thread table of the process
ThreadExists(tid) == tid + 1 <= Len(tasks) /\ tasks[tid + 1] # NoTask

\* C29: a call of sys_waittid(tid) returns; it returns -1 for the caller's own
\* tid and for a tid without a thread in the table, -2 for a thread that has
\* not exited, and otherwise the exit code of the thread, whose slot of the
\* table is then empty; the kernel goes on.
C29_WaittidContract ==
  [][thread_call'.n = thread_call.n + 1 =>
       LET tid == thread_call'.tid
           t == thread_call'.task IN
         /\ ~kernel_panic'
         /\ thread_call'.ret =
              IF task_res_tid[t] = <<tid>> \/ ~ThreadExists(tid) THEN <<-1>>
              ELSE IF task_exit_code[tasks[tid + 1]] = << >> THEN <<-2>>
              ELSE task_exit_code[tasks[tid + 1]]
         /\ (ThreadExists(tid) /\ task_res_tid[t] # <<tid>>
               /\ task_exit_code[tasks[tid + 1]] # << >>)
              => tasks'[tid + 1] = NoTask]_vars

(***************************************************************************)
(* sys_waitpid : the reference count of the PCB of the zombie it removes   *)
(***************************************************************************)
\* the zombie that sys_waitpid(pid) of thread u takes from the children list
Reaped(u, pid) ==
  LET kids == children[ThreadProc(u)]
      Z == zombie_idx(kids, pid) IN
    kids[CHOOSE j \in Z : \A k \in Z : j <= k]

\* C30: when sys_waitpid takes a zombie from the children list of the caller,
\* that list held the only strong reference to its PCB, and the kernel goes
\* on after the call; also for a child whose other threads were inside a
\* system call when its main thread exited.
C30_ReapedHasOneReference ==
  [][\A u \in PTcbs :
       (IsWaitpid(u) /\ zombie_idx(children[ThreadProc(u)], last_trap'.arg) # {})
         => /\ strong_count(Reaped(u, last_trap'.arg)) = 1
            /\ halted' # "panic"]_vars

(***************************************************************************)
(* The process tree: children lists and parent references                  *)
(***************************************************************************)
\* the processes whose children list holds c, counted with multiplicity
Owners(c) ==
  {qi \in Procs \X (1 .. Cardinality(Procs)) :
     qi[2] <= Len(children[qi[1]]) /\ children[qi[1]][qi[2]] = c}

\* c is once in the children list of its parent, and in no other list
InOneList(c) ==
  /\ Cardinality(Owners(c)) = 1
  /\ \A qi \in Owners(c) : parent[c] = qi[1]

\* the exit of the main thread of p in this step
MainExits(p) == ~ is_zombie[p] /\ is_zombie'[p]

\* a live process holds c in its children list, and sys_waitpid of it
\* passes the assertion on the reference count
Reapable(c) ==
  /\ \E q \in Procs : c \in Range(children[q]) /\ pcb_alive[q] /\ ~ is_zombie[q]
  /\ strong_count(c) = 1

\* C31: every process other than initproc is in exactly one children list,
\* that of its parent; the exit of the main thread of a process hands its
\* children to initproc and empties its list; every zombie can be reaped by
\* a live process.
C31_ChildrenTree ==
  /\ [](\A c \in PProcs : pcb_alive[c] => InOneList(c))
  /\ [](\A c \in PProcs : (pcb_alive[c] /\ is_zombie[c]) => Reapable(c))
  /\ [][\A p \in PProcs : MainExits(p) =>
          /\ children'[p] = << >>
          /\ \A c \in Range(children[p]) :
                c \in Range(children'[INITPROC]) /\ parent'[c] = INITPROC]_vars

(***************************************************************************)
(* The address space of a process that exits and is reaped                 *)
(***************************************************************************)
\* recycle_res.clear() of exit_current_and_run_next: the TaskUserRes of the
\* threads drop in the order of the thread table
RECURSIVE drop_user_res(_, _, _)
drop_user_res(C, ustack_base, tids) ==
  IF C.panic \/ tids = {} THEN C
  ELSE Bind(dealloc_user_res(C, ustack_base, Least(tids)),
            LAMBDA c : drop_user_res(c, ustack_base, tids \ {Least(tids)}))

\* exit_current_and_run_next of the main thread of process m, the part on the
\* address space: the user resources of the threads, then recycle_data_pages;
\* the PCB stays, a zombie, with its MemorySet
MemExit(m) ==
  /\ MemRuns(m)
  /\ \E c \in {Bind(drop_user_res(Ctx(m), heap[m].heap_bottom, user_res[m].tids),
                    LAMBDA c1 : IF c1.panic THEN c1 ELSE recycle_data_pages(c1))} :
       /\ frame_allocator' = c.fa
       /\ frame_data' = c.data
       /\ mem_panic' = c.panic
       /\ memory_set' = [memory_set EXCEPT ![m] = [alive |-> FALSE,
                                                   page_table |-> c.page_table,
                                                   areas |-> c.areas]]
  /\ user_res' = [user_res EXCEPT ![m] = [tids |-> {}, tasks_len |-> 1]]
  /\ mem_last' = MemOp("exit", m, 0, 0)
  /\ UNCHANGED <<heap, file_mappings>>
  /\ UNCHANGED OtherThanMem

\* a process that has exited and has not been reaped
MemZombie(m) == ~ memory_set[m].alive /\ memory_set[m] # NoMemorySet

\* sys_waitpid drops the PCB of the zombie m: the frames of its page table go
\* back to the allocator
MemReap(m) ==
  /\ ~ mem_panic /\ MemZombie(m) /\ mem_last.n < MaxMemOps
  /\ \E c \in {drop_frames(Ctx(m), memory_set[m].page_table.frames)} :
       /\ frame_allocator' = c.fa
       /\ frame_data' = c.data
       /\ mem_panic' = c.panic
  /\ memory_set' = [memory_set EXCEPT ![m] = NoMemorySet]
  /\ mem_last' = MemOp("reap", m, 0, 0)
  /\ UNCHANGED <<heap, file_mappings, user_res>>
  /\ UNCHANGED OtherThanMem

NextMemExit ==
  \/ NextMem
  \/ \E m \in MemProcs : MemExit(m)
  \/ \E m \in MemProcs : MemReap(m)

SpecMemExit == InitAll /\ [][NextMemExit]_vars

\* the frame of the valid leaf entry of page v is the frame an area of the
\* address space records for v, or the trampoline; and it is not free
EntryTracked(ms, fa, v) ==
  /\ \/ \E i \in 1 .. Len(ms.areas) :
          v \in DOMAIN ms.areas[i].data_frames
            /\ ms.areas[i].data_frames[v] = ms.page_table.pte[v].ppn
     \/ v = TRAMPOLINE_VPN /\ ms.page_table.pte[v].ppn = strampoline_ppn
  /\ ms.page_table.pte[v].ppn \notin FreeFrames(fa)

\* C32: while the kernel runs, every valid leaf entry of every page table that
\* exists, the table of a zombie after recycle_data_pages included, has the
\* frame an area of its address space holds or the trampoline, and never a
\* frame that is back in the frame allocator.
C32_LeafEntriesTracked ==
  ~ mem_panic =>
    \A m \in MemProcs :
      memory_set[m] # NoMemorySet =>
        \A v \in DOMAIN memory_set[m].page_table.pte :
          EntryTracked(memory_set[m], frame_allocator, v)

(***************************************************************************)
(* The heap and the user stacks                                            *)
(***************************************************************************)
\* the pages of the user stacks of the threads of process m
StackVpns(m) ==
  UNION {PagesOf(ustack_bottom_from_tid(heap[m].heap_bottom, t),
                 ustack_bottom_from_tid(heap[m].heap_bottom, t) + USER_STACK_SIZE) :
           t \in user_res[m].tids}

\* the pages of the heap region [heap_bottom, program_brk)
HeapVpns(m) == PagesOf(heap[m].heap_bottom, heap[m].program_brk)

\* the step is a sys_sbrk of process m that the kernel survives
SbrkStep(m) ==
  mem_last'.op = "sbrk" /\ mem_last'.n # mem_last.n /\ mem_last'.proc = m /\ ~ mem_panic'

\* the step leaves the entry and the contents of page v of process m alone
PageKept(m, v) ==
  /\ pte_valid(memory_set[m].page_table, v) <=> pte_valid(memory_set'[m].page_table, v)
  /\ pte_valid(memory_set[m].page_table, v) =>
       /\ memory_set'[m].page_table.pte[v] = memory_set[m].page_table.pte[v]
       /\ frame_data'[memory_set[m].page_table.pte[v].ppn]
            = frame_data[memory_set[m].page_table.pte[v].ppn]

\* C33: the heap region [heap_bottom, program_brk) holds no page of a user
\* stack; a sys_sbrk that grows the break maps pages between the old and the
\* new break only, one that shrinks it unmaps pages between the new and the
\* old break only, and no sys_sbrk changes the entry or the contents of a page
\* of a user stack.
C33_HeapApartFromStacks ==
  /\ [](~ mem_panic => \A m \in MemProcs :
                          memory_set[m].alive => HeapVpns(m) \cap StackVpns(m) = {})
  /\ [][\A m \in MemProcs :
          SbrkStep(m) =>
            /\ \A v \in StackVpns(m) : PageKept(m, v)
            /\ (DOMAIN memory_set'[m].page_table.pte) \ (DOMAIN memory_set[m].page_table.pte)
                 \subseteq PagesOf(heap[m].program_brk, heap'[m].program_brk)
            /\ (DOMAIN memory_set[m].page_table.pte) \ (DOMAIN memory_set'[m].page_table.pte)
                 \subseteq PagesOf(heap'[m].program_brk, heap[m].program_brk)]_vars

(***************************************************************************)
(* increase_size as a function of the old size, the new size and the       *)
(* vector new_blocks                                                       *)
(***************************************************************************)
\* the calls of increase_size of a run
MaxIncSteps == 2

\* the blocks the vector holds beyond blocks_num_needed
Surplus == {0, 2}

\* the sizes, in blocks: at and next to the bounds of the direct entries, of
\* the first-level index and of the first two groups of the second level
IncBlocks ==
  {0, 1, DIRECT_BOUND - 1, DIRECT_BOUND, DIRECT_BOUND + 1,
   INDIRECT1_BOUND, INDIRECT1_BOUND + 1,
   INDIRECT1_BOUND + INODE_INDIRECT1_COUNT, INDIRECT1_BOUND + INODE_INDIRECT1_COUNT + 1,
   INDIRECT1_BOUND + 2 * INODE_INDIRECT1_COUNT + 1}

\* new_blocks: n blocks of the data area that no call was given before
FreshBlocks(given, n) == [i \in 1 .. n |-> data_area_start_block + given + i]

\* increase_size(new_size, new_blocks) on the file, new_blocks holding
\* `extra` blocks more than blocks_num_needed
IncGrow ==
  /\ ~ efs.panic /\ efs.n < MaxIncSteps
  /\ \E b \in IncBlocks, extra \in Surplus :
       /\ b * BLOCK_SZ >= efs.inode.size
       /\ \E nb \in {FreshBlocks(Len(efs.supplied),
                                 blocks_num_needed(efs.inode, b * BLOCK_SZ) + extra)} :
            \E r \in {increase_size(EfsF, efs.inode, b * BLOCK_SZ, nb)} :
              efs' = [efs EXCEPT !.queue = r.f.queue, !.disk = r.f.disk,
                                 !.panic = r.f.panic,
                                 !.inode = r.inode,
                                 !.supplied = @ \o nb,
                                 !.out = nb,
                                 !.last = EfsCall("increase_size", b * BLOCK_SZ, Len(nb),
                                                  r.it - 1),
                                 !.prev = efs.last.op,
                                 !.n = @ + 1]
  /\ UNCHANGED OtherThanEfs

NextIncrease == IncGrow

SpecIncrease == InitAll /\ [][NextIncrease]_vars

\* the contents of block id as the file system sees them: the cache entry if
\* there is one, the device otherwise
BlockNow(E, id) ==
  IF \E i \in 1 .. Len(E.queue) : E.queue[i].block_id = id
  THEN (CHOOSE e \in Range(E.queue) : e.block_id = id).cache
  ELSE read_block(E.disk, id)

\* the block in place j (from 1) of the file E in the order: the direct
\* entries, the first-level index block, its entries, the second-level index
\* block, then group after group the first-level block of the group and its
\* INODE_INDIRECT1_COUNT entries
SlotBlock(E, j) ==
  IF j <= INODE_DIRECT_COUNT THEN E.inode.direct[j - 1]
  ELSE IF j = INODE_DIRECT_COUNT + 1 THEN E.inode.indirect1
  ELSE IF j <= INDIRECT1_BOUND + 1
  THEN IdxAt(BlockNow(E, E.inode.indirect1), j - INODE_DIRECT_COUNT - 2)
  ELSE IF j = INDIRECT1_BOUND + 2 THEN E.inode.indirect2
  ELSE LET k == j - INDIRECT1_BOUND - 3
           a == k \div (INODE_INDIRECT1_COUNT + 1)
           r == k % (INODE_INDIRECT1_COUNT + 1) IN
         IF r = 0 THEN IdxAt(BlockNow(E, E.inode.indirect2), a)
         ELSE IdxAt(BlockNow(E, IdxAt(BlockNow(E, E.inode.indirect2), a)), r - 1)

\* C34: increase_size from the old size to a new size not below it takes
\* total_blocks(new) - total_blocks(old) blocks from the front of new_blocks,
\* whatever the vector holds beyond them, and puts them, in the order of the
\* vector, in the places that follow the places the file had: direct entries,
\* first-level index block, its entries, second-level index block, then for
\* each group of 128 entries its first-level block and its entries.
C34_IncreaseSizeConsumption ==
  [][EfsStep("increase_size") =>
       /\ ~ efs'.panic
       /\ efs'.last.ret = total_blocks(efs'.inode.size) - total_blocks(efs.inode.size)
       /\ \A i \in 1 .. efs'.last.ret :
            SlotBlock(efs', total_blocks(efs.inode.size) + i) = efs'.out[i]
       /\ \A j \in 1 .. total_blocks(efs.inode.size) :
            SlotBlock(efs', j) = SlotBlock(efs, j)]_vars

\* a file that ended inside the first-level index has grown into the second
\* group of the second level, from a vector with two blocks to spare
C34_Witness ==
  /\ efs.last.op = "increase_size" /\ efs.prev = "increase_size" /\ ~ efs.panic
  /\ data_blocks(efs.inode.size) = INDIRECT1_BOUND + INODE_INDIRECT1_COUNT + 1
  /\ efs.last.arg2 = efs.last.ret + 2
  /\ efs.last.ret = (INDIRECT1_BOUND - DIRECT_BOUND - 1) + 1 + 2 + INODE_INDIRECT1_COUNT + 1

(***************************************************************************)
(* easy-fs/src/block_cache.rs : the queue of BLOCK_CACHE_MANAGER and the   *)
(* handles (Arc<Mutex<BlockCache>>) its callers hold                        *)
(***************************************************************************)
\* the calls of a run, and the handles of one block a run holds at a time
MaxCacheOps == 4
MaxHandles == 2

\* the blocks the calls of a run name: three of the blocks that are in a full
\* queue, and two that are not
CacheBlocks == {1, 2, 3, BLOCK_CACHE_SIZE + 1, BLOCK_CACHE_SIZE + 2}

\* the cache after get_block_cache of the blocks from .. to, in order, each
\* handle being dropped at once
RECURSIVE CacheFilled(_, _, _)
CacheFilled(F, from, to) ==
  IF from > to THEN F
  ELSE Bind(get_block_cache(F, from, {}), LAMBDA G : CacheFilled(G, from + 1, to))

\* the handles held at the start: none; one of every block of the queue; one
\* of every block but the third; one of the first block
HeldAtStart(k) ==
  {[b \in 1 .. k |-> 0], [b \in 1 .. k |-> 1],
   [b \in 1 .. k |-> IF b = 3 THEN 0 ELSE 1], [b \in 1 .. k |-> IF b = 1 THEN 1 ELSE 0]}

NoCacheCall == [op |-> "none", arg |-> 0, hit |-> FALSE]

\* queue, disk, panic: as in the file system above; handles: the number of
\* handles of a block outside the queue (strong_count - 1 while it is in the
\* queue); written: the value last stored in a block through a handle
InitCacheWith(k, h) ==
  LET F == CacheFilled([queue |-> << >>, disk |-> << >>, panic |-> FALSE], 1, k) IN
    efs = [queue |-> F.queue, disk |-> F.disk, panic |-> F.panic,
           handles |-> [b \in 1 .. (BLOCK_CACHE_SIZE + 2) |-> IF b <= k THEN h[b] ELSE 0],
           written |-> << >>,
           last |-> NoCacheCall, n |-> 0]

InitCache ==
  /\ InitSync /\ InitPipe /\ InitProc
  /\ InitMem /\ InitSig /\ InitFd /\ InitBitmap /\ InitCondvar
  /\ \E k \in {0, BLOCK_CACHE_SIZE - 1, BLOCK_CACHE_SIZE} :
       \E h \in HeldAtStart(k) : InitCacheWith(k, h)

CacheRuns == ~ efs.panic /\ efs.n < MaxCacheOps

\* the blocks with a handle outside the queue
Held == {b \in DOMAIN efs.handles : efs.handles[b] > 0}

CacheF == [queue |-> efs.queue, disk |-> efs.disk, panic |-> efs.panic]

\* get_block_cache(block_id, device): the caller keeps the handle
CacheGet(b) ==
  /\ CacheRuns /\ efs.handles[b] < MaxHandles
  /\ \E G \in {get_block_cache(CacheF, b, Held)} :
       efs' = [efs EXCEPT !.queue = G.queue, !.disk = G.disk, !.panic = G.panic,
                          !.handles[b] = IF G.panic THEN @ ELSE @ + 1,
                          !.last = [op |-> "get", arg |-> b, hit |-> Cached(CacheF, b)],
                          !.n = @ + 1]
  /\ UNCHANGED OtherThanEfs

\* a handle goes out of scope
CacheDrop(b) ==
  /\ CacheRuns /\ efs.handles[b] > 0
  /\ efs' = [efs EXCEPT !.handles[b] = @ - 1,
                        !.last = [op |-> "drop", arg |-> b, hit |-> FALSE],
                        !.n = @ + 1]
  /\ UNCHANGED OtherThanEfs

\* the value a call stores: the number of the call
StoredBy(n) == [idx |-> << >>, bytes |-> (0 :> n)]

\* lock().modify(..) through a handle: get_mut sets the dirty flag
CacheModify(b) ==
  /\ CacheRuns /\ efs.handles[b] > 0
  /\ \E G \in {BlockCache_modify(CacheF, b, StoredBy(efs.n + 1))} :
       efs' = [efs EXCEPT !.queue = G.queue,
                          !.written = (b :> (efs.n + 1)) @@ @,
                          !.last = [op |-> "modify", arg |-> b, hit |-> FALSE],
                          !.n = @ + 1]
  /\ UNCHANGED OtherThanEfs

\* block_cache_sync_all()
CacheSyncAll ==
  /\ CacheRuns
  /\ \E G \in {block_cache_sync_all(CacheF)} :
       efs' = [efs EXCEPT !.queue = G.queue, !.disk = G.disk,
                          !.last = [op |-> "sync_all", arg |-> 0, hit |-> FALSE],
                          !.n = @ + 1]
  /\ UNCHANGED OtherThanEfs

NextCache ==
  \/ \E b \in CacheBlocks : CacheGet(b)
  \/ \E b \in CacheBlocks : CacheDrop(b)
  \/ \E b \in CacheBlocks : CacheModify(b)
  \/ CacheSyncAll

SpecCache == InitCache /\ [][NextCache]_vars

\* the places of the queue whose entry has no handle outside the queue
Unreferenced == {i \in 1 .. Len(efs.queue) : efs.queue[i].block_id \notin Held}

\* the step is get_block_cache(b)
CacheGetStep(b) == efs'.last.op = "get" /\ efs'.n = efs.n + 1 /\ efs'.last.arg = b

\* the queue after the step is q with a new entry of block b at the tail
TailAdded(q, b) ==
  /\ Len(efs'.queue) = Len(q) + 1
  /\ SubSeq(efs'.queue, 1, Len(q)) = q
  /\ efs'.queue[Len(q) + 1].block_id = b

\* C35: the queue never holds more than BLOCK_CACHE_SIZE entries nor a block
\* twice; get_block_cache of a block in the queue leaves the queue as it is;
\* of another block it puts a new entry at the tail, after taking out, when
\* the queue is full, the first entry without a handle outside the queue and
\* no other; and it panics only when the queue is full and every entry has a
\* handle outside.
C35_CacheQueue ==
  /\ [](/\ Len(efs.queue) <= BLOCK_CACHE_SIZE
        /\ \A i, j \in 1 .. Len(efs.queue) :
             efs.queue[i].block_id = efs.queue[j].block_id => i = j)
  /\ [][\A b \in CacheBlocks :
          CacheGetStep(b) =>
            IF Cached(CacheF, b)
            THEN ~ efs'.panic /\ efs'.queue = efs.queue
            ELSE IF Len(efs.queue) < BLOCK_CACHE_SIZE
            THEN ~ efs'.panic /\ TailAdded(efs.queue, b)
            ELSE IF Unreferenced = {}
            THEN efs'.panic
            ELSE ~ efs'.panic /\ TailAdded(RemoveAt(efs.queue, Least(Unreferenced)), b)]_vars

\* the queue was full and the caller held its first block: the entry of block
\* 2 went, block 1 stays at the head
C35_Witness ==
  /\ efs.last.op = "get" /\ ~ efs.last.hit /\ ~ efs.panic
  /\ Len(efs.queue) = BLOCK_CACHE_SIZE
  /\ efs.queue[1].block_id = 1 /\ efs.handles[1] > 0
  /\ efs.queue[2].block_id = 3
  /\ efs.queue[BLOCK_CACHE_SIZE].block_id = efs.last.arg

\* C36: what was last stored in a block through the cache is what the cache
\* entry of the block holds or, when the block has no entry, what the device
\* holds; an entry that leaves the queue leaves its contents on the device;
\* and after block_cache_sync_all every entry is clean and equal to its block
\* on the device.
C36_WritesNotLost ==
  /\ [](\A b \in DOMAIN efs.written : ByteAt(BlockNow(efs, b), 0) = efs.written[b])
  /\ [][\A i \in 1 .. Len(efs.queue) :
          (\A j \in 1 .. Len(efs'.queue) : efs'.queue[j].block_id # efs.queue[i].block_id)
            => read_block(efs'.disk, efs.queue[i].block_id) = efs.queue[i].cache]_vars
  /\ [][(efs'.last.op = "sync_all" /\ efs'.n = efs.n + 1) =>
          \A i \in 1 .. Len(efs'.queue) :
            /\ ~ efs'.queue[i].modified
            /\ read_block(efs'.disk, efs'.queue[i].block_id) = efs'.queue[i].cache]_vars

\* block 1 was modified, left the queue, and is in the queue again with what
\* was stored in it
C36_Witness ==
  /\ efs.last.op = "get" /\ efs.last.arg = 1 /\ ~ efs.last.hit /\ ~ efs.panic
  /\ 1 \in DOMAIN efs.written
  /\ ByteAt(efs.queue[Len(efs.queue)].cache, 0) = efs.written[1]

(***************************************************************************)
(* mm/page_table.rs : translated_byte_buffer                               *)
(***************************************************************************)
\* VirtAddr::page_offset
page_offset(va) == va % PAGE_SIZE

\* PageTable::translate : None when a table on the way is missing; the entry
\* of the leaf table otherwise, valid or not (an entry that is not valid is
\* zero, and its ppn() is 0)
PageTable_translate(pt, vpn) ==
  IF ~ find_pte_some(pt, vpn) THEN [some |-> FALSE, ppn |-> 0]
  ELSE IF pte_valid(pt, vpn) THEN [some |-> TRUE, ppn |-> pt.pte[vpn].ppn]
  ELSE [some |-> TRUE, ppn |-> 0]

\* the loop of translated_byte_buffer: v holds the slices [vpn, ppn, from, to]
\* pushed so far, the bytes from .. to-1 of the frame ppn that page vpn was
\* translated to.  The addresses of the model are below 2^31, so
\* VirtAddr::from, which keeps the low 39 bits, leaves them as they are.
RECURSIVE tbb_loop(_, _, _, _)
tbb_loop(pt, start_va, end, v) ==
  LET vpn == va_floor(start_va)
      t == PageTable_translate(pt, vpn) IN
    IF ~ t.some THEN [panic |-> TRUE, v |-> v]
    ELSE IF end < (vpn + 1) * PAGE_SIZE
    THEN IF page_offset(start_va) > page_offset(end)
         THEN [panic |-> TRUE, v |-> v]
         ELSE [panic |-> FALSE,
               v |-> Append(v, [vpn |-> vpn, ppn |-> t.ppn, from |-> page_offset(start_va),
                                to |-> page_offset(end)])]
    ELSE tbb_loop(pt, (vpn + 1) * PAGE_SIZE, end,
                  Append(v, [vpn |-> vpn, ppn |-> t.ppn, from |-> page_offset(start_va),
                             to |-> PAGE_SIZE]))

translated_byte_buffer(pt, ptr, len) == tbb_loop(pt, ptr, ptr + len, << >>)

\* the buffers: in the page of the program and in the user stack of the main
\* thread, at the start of a page, near its end and at its last byte
BufferPtrs ==
  {ElfStartVpn * PAGE_SIZE, ElfStartVpn * PAGE_SIZE + (PAGE_SIZE - 96),
   ustack_base_of_elf, ustack_base_of_elf + (PAGE_SIZE - 1)}
BufferLens == {1, 96, PAGE_SIZE, PAGE_SIZE + 1}

\* a system call of process m translates a buffer of the caller (sys_read,
\* sys_write, sys_pipe, ...)
MemTranslate(m) ==
  /\ MemRuns(m)
  /\ \E ptr \in BufferPtrs, len \in BufferLens :
       \E r \in {translated_byte_buffer(memory_set[m].page_table, ptr, len)} :
         /\ mem_last' = MemOp("translated_byte_buffer", m, ptr,
                              [len |-> len, panic |-> r.panic, v |-> r.v])
         /\ mem_panic' = r.panic
  /\ UNCHANGED <<frame_allocator, frame_data, memory_set, heap, file_mappings, user_res>>
  /\ UNCHANGED OtherThanMem

NextBuffer ==
  \/ \E m \in MemProcs : MemTranslate(m)
  \/ \E m \in MemProcs : MemThreadCreate(m)
  \/ MemFork

SpecBuffer == InitAll /\ [][NextBuffer]_vars

\* the pages that hold a byte of [ptr, ptr + len), in the order of the addresses
RECURSIVE PagesInOrder(_, _)
PagesInOrder(from, to) ==
  IF from > to THEN << >> ELSE <<from>> \o PagesInOrder(from + 1, to)

RECURSIVE SliceBytes(_)
SliceBytes(v) == IF v = << >> THEN 0 ELSE (Head(v).to - Head(v).from) + SliceBytes(Tail(v))

\* C37: translated_byte_buffer(token, ptr, len) with len > 0 gives, in the
\* order of the addresses, one slice for each page that holds a byte of
\* [ptr, ptr + len) and for no other page, the lengths of the slices add up to
\* len, and no other page is translated: with ptr + len at the start of a
\* page, that page is not looked up.
C37_OneSlicePerPage ==
  [][(mem_last'.op = "translated_byte_buffer" /\ mem_last'.n # mem_last.n) =>
       LET ptr == mem_last'.arg
           len == mem_last'.ret.len
           v == mem_last'.ret.v IN
         /\ ~ mem_last'.ret.panic
         /\ [i \in 1 .. Len(v) |-> v[i].vpn]
              = PagesInOrder(va_floor(ptr), va_floor(ptr + len - 1))
         /\ SliceBytes(v) = len]_vars

(***************************************************************************)
(* The tid of an exited thread and its slot of the thread table            *)
(***************************************************************************)
\* the step creates the thread `new`
ThreadCreated(new) == task_status[new] = "NoTcb" /\ task_status'[new] # "NoTcb"

\* the step is the exit of the main thread, which empties the thread table
MainExitStep == task_exit_code[MainTcb] = << >> /\ task_exit_code'[MainTcb] # << >>

\* the step is a sys_waittid of the running thread that takes x out of the table
WaitedFor(x) ==
  /\ current # NoTask /\ pc[current] = "waittid"
  /\ waitlist # << >> /\ ThreadExists(Head(waitlist)) /\ tasks[Head(waitlist) + 1] = x

\* C38: sys_thread_create gives the new thread a tid whose slot of the thread
\* table holds no thread, so the TCB of an exited thread stays in its slot,
\* with its exit code, until sys_waittid of its tid returns that code (or the
\* process exits).
C38_TidNotReusedBeforeWait ==
  /\ [][\A new \in Tcbs :
          ThreadCreated(new) => ~ ThreadExists(task_res_tid'[new][1])]_vars
  /\ [][\A x \in Tcbs \ {MainTcb} :
          (x \in Range(tasks) /\ task_exit_code[x] # << >> /\ x \notin Range(tasks'))
            => (WaitedFor(x) \/ MainExitStep)]_vars

(***************************************************************************)
(* The ready queue, the current task and the wait structures               *)
(***************************************************************************)
\* the number of places of the queue q that hold t
PlacesOf(q, t) == Cardinality({i \in 1 .. Len(q) : q[i] = t})

\* the number of references to t in the wait structures: the wait queues of
\* the mutex, of the condition variable and of the block device's condition
\* variable, and the timer heap
WaitCount(t) ==
  PlacesOf(mutex.wait_queue, t) + PlacesOf(condvar.wait_queue, t)
    + PlacesOf(block_device.wait_queue, t)
    + Cardinality({tm \in timers : tm.task = t})

DiskInodeSize == 128

\* EasyFileSystem::create : the sizes and the first blocks of the areas
create(total, inode_bitmap_blocks) ==
  LET inode_num == inode_bitmap_blocks * BLOCK_BITS
      inode_area_blocks == (inode_num * DiskInodeSize + BLOCK_SZ - 1) \div BLOCK_SZ
      inode_total_blocks == inode_bitmap_blocks + inode_area_blocks
      data_total_blocks == total - 1 - inode_total_blocks
      data_bitmap_blocks == (data_total_blocks + (4097 - 1)) \div 4097
      data_area_blocks == data_total_blocks - data_bitmap_blocks
  IN [total_blocks |-> total,
      inode_area_blocks |-> inode_area_blocks,
      data_bitmap_blocks |-> data_bitmap_blocks,
      data_area_blocks |-> data_area_blocks,
      data_bitmap_start |-> 1 + inode_bitmap_blocks + inode_area_blocks,
      inode_area_start_block |-> 1 + inode_bitmap_blocks,
      data_area_start_block |-> 1 + inode_total_blocks + data_bitmap_blocks]

\* the calls of alloc_data the model follows on one device
MaxCreateOps == 4

\* the sizes of the devices: the least and the greatest with NBitmapBlocks
\* blocks of data bitmap, their neighbours, and one between
TotalBlocks ==
  {1 + 1 + InodeAreaBlocks + 4097 + 1, 1 + 1 + InodeAreaBlocks + 4097 + 2,
   7000,
   1 + 1 + InodeAreaBlocks + 2 * 4097 - 1, 1 + 1 + InodeAreaBlocks + 2 * 4097}

\* the data blocks in use when the model starts, on the device fs
CreateFills(fs) ==
  {0, 1, fs.data_area_blocks - 2, fs.data_area_blocks - 1, fs.data_area_blocks}

\* the file system create returns, after n calls of alloc_data
InitCreate ==
  /\ InitSync /\ InitPipe /\ InitProc
  /\ InitMem /\ InitSig /\ InitFd /\ InitEfs /\ InitCondvar
  /\ \E t \in TotalBlocks :
       \E fs \in {create(t, 1)} :
         /\ fs.data_bitmap_blocks = NBitmapBlocks
         /\ fs.data_area_start_block = data_area_start_block
         /\ \E n \in CreateFills(fs) :
              bitmap = [blocks |-> FilledTo(n), fs |-> fs,
                        last |-> NoBitmapCall, panic |-> FALSE, n |-> 0]

\* a call of alloc_data; the unwrap() panics when alloc returns None
AllocData ==
  /\ ~bitmap.panic /\ bitmap.n < MaxCreateOps
  /\ \E r \in {alloc_data(bitmap.blocks)} :
       bitmap' = [bitmap EXCEPT !.blocks = r.bm,
                                !.last = [op |-> "alloc_data", arg |-> 0,
                                          some |-> ~r.panic, ret |-> r.id],
                                !.panic = r.panic,
                                !.n = @ + 1]
  /\ UNCHANGED OtherThanBitmap

NextCreate == AllocData

SpecCreate == InitCreate /\ [][NextCreate]_vars

\* the data blocks in use: the bits of the data bitmap that are 1
BlocksInUse ==
  Cardinality({k \in 0 .. (maximum - 1) : BitIsSet(bitmap.blocks, k)})

\* the block number the last call of alloc_data has returned
AllocDataReturned == bitmap.last.op = "alloc_data" /\ bitmap.last.some

\* C40 : every block number alloc_data returns lies in the data area of the
\* device, data_area_start_block <= id < total_blocks, so that no more than
\* data_area_blocks data blocks are ever in use
C40_AllocDataInsideDevice ==
  /\ AllocDataReturned
       => /\ bitmap.fs.data_area_start_block <= bitmap.last.ret
          /\ bitmap.last.ret < bitmap.fs.total_blocks
  /\ BlocksInUse <= bitmap.fs.data_area_blocks

\* the part that holds: a returned block number is at or after the first data
\* block and below data_area_start_block + maximum()
C40_AllocDataInsideBitmap ==
  AllocDataReturned
    => /\ bitmap.fs.data_area_start_block <= bitmap.last.ret
       /\ bitmap.last.ret < bitmap.fs.data_area_start_block + maximum

\* alloc_data has returned the last block of the device
C40_LastBlockReturned ==
  AllocDataReturned /\ bitmap.last.ret = bitmap.fs.total_blocks - 1

====
